---- MODULE Spec2Model ----
(***************************************************************************)
(* Model of sclang_format: a SuperCollider formatter that rewrites a text  *)
(* buffer by offsets taken from a concrete syntax tree.                    *)
(*                                                                         *)
(* A buffer is a sequence of one-character strings.  A tree is a record    *)
(* [text, nodes]: the text the parser was given and its nodes in document  *)
(* (pre-)order, each with byte range, start/end point and parent index.    *)
(***************************************************************************)
EXTENDS Integers, Sequences, FiniteSets, TLC

NL == "\n"
SP == " "
TAB == "\t"

\* Python's None / an unassigned local, and the exceptions a run can die of.
None == "None"
IndexError == "IndexError"
TypeError == "TypeError"
UnboundLocalError == "UnboundLocalError"

Min(a, b) == IF a <= b THEN a ELSE b
Max(a, b) == IF a >= b THEN a ELSE b

(***************************************************************************)
(* Python string primitives                                                *)
(***************************************************************************)

\* s[i:j] for 0-based i, j; negative indices count from the end; both are
\* clamped to the string, as Python's slicing does.
PyNorm(n, i) == IF i < 0 THEN Max(0, n + i) ELSE Min(i, n)
PySlice(s, i, j) ==
    LET a == PyNorm(Len(s), i)
        b == PyNorm(Len(s), j)
    IN IF a >= b THEN << >> ELSE SubSeq(s, a + 1, b)

\* s[i:] and s[:j]
PyFrom(s, i) == PySlice(s, i, Len(s))
PyTo(s, j) == PySlice(s, 0, j)

\* s[i]: a negative index wraps around, an index outside the string raises.
PyInRange(s, i) == (i >= 0 /\ i < Len(s)) \/ (i < 0 /\ -i <= Len(s))
PyAt(s, i) == IF i >= 0 THEN s[i + 1] ELSE s[Len(s) + i + 1]

\* s.startswith(p) at offset i
MatchAt(s, i, p) ==
    /\ i >= 0
    /\ i + Len(p) <= Len(s)
    /\ \A k \in 1..Len(p) : s[i + k] = p[k]

\* re.sub(p, r, s) for a literal, non-empty pattern p: leftmost,
\* non-overlapping matches, scanning resumes after each match.
RECURSIVE SubFrom(_, _, _, _)
SubFrom(s, i, p, r) ==
    IF i >= Len(s) THEN << >>
    ELSE IF MatchAt(s, i, p) THEN r \o SubFrom(s, i + Len(p), p, r)
    ELSE <<s[i + 1]>> \o SubFrom(s, i + 1, p, r)

ReSub(p, r, s) == SubFrom(s, 0, p, r)

\* Length of the maximal run of character c starting at offset i.
RECURSIVE RunLen(_, _, _)
RunLen(s, i, c) ==
    IF i < Len(s) /\ s[i + 1] = c THEN 1 + RunLen(s, i + 1, c) ELSE 0

\* re.sub(c + "+", r, s): every maximal run of c becomes r.
RECURSIVE SubRuns(_, _, _, _, _)
SubRuns(s, i, c, minRun, r) ==
    IF i >= Len(s) THEN << >>
    ELSE LET n == RunLen(s, i, c)
         IN IF n >= minRun THEN r \o SubRuns(s, i + n, c, minRun, r)
            ELSE <<s[i + 1]>> \o SubRuns(s, i + 1, c, minRun, r)

IsSpaceChar(c) == c \in {SP, NL, TAB}

\* str.rstrip(), str.lstrip(), str.strip()
RECURSIVE RStrip(_)
RStrip(s) ==
    IF Len(s) > 0 /\ IsSpaceChar(s[Len(s)]) THEN RStrip(SubSeq(s, 1, Len(s) - 1))
    ELSE s

RECURSIVE LStrip(_)
LStrip(s) ==
    IF Len(s) > 0 /\ IsSpaceChar(s[1]) THEN LStrip(Tail(s)) ELSE s

Strip(s) == LStrip(RStrip(s))

(***************************************************************************)
(* Position index                                                          *)
(***************************************************************************)

\* Offsets i of the matches of "(?<=\n)(.|\n)": a character exists at i and
\* the character before it is a newline.
RECURSIVE NewlineMatches(_, _)
NewlineMatches(data, i) ==
    IF i >= Len(data) THEN << >>
    ELSE IF i >= 1 /\ data[i] = NL THEN <<i>> \o NewlineMatches(data, i + 1)
    ELSE NewlineMatches(data, i + 1)

\* Entry k of the list is the model's index k + 1 (Python lists are 0-based).
get_all_newline_offsets(data) == <<0>> \o NewlineMatches(data, 0)

\* newline_offsets[line] + column; IndexError when the list has no such line.
HasLine(newline_offsets, line) == line >= 0 /\ line < Len(newline_offsets)
Resolve(newline_offsets, point) == newline_offsets[point[1] + 1] + point[2]

get_start_of_node(node, newline_offsets) == Resolve(newline_offsets, node.sp)
get_end_of_node(node, newline_offsets) == Resolve(newline_offsets, node.ep)

(***************************************************************************)
(* naive_normalize                                                         *)
(***************************************************************************)

naive_normalize(data) ==
    LET d1 == ReSub(<<TAB>>, <<SP>>, data)
        d2 == SubRuns(d1, 0, SP, 1, <<SP>>)
        d3 == SubRuns(d2, 0, NL, 2, <<NL, NL>>)
        d4 == ReSub(<<NL, SP>>, <<NL>>, d3)
        d5 == ReSub(<<"=", SP>>, <<"=">>, d4)
        d6 == ReSub(<<SP, "=">>, <<"=">>, d5)
        d7 == ReSub(<<"|", SP>>, <<"|">>, d6)
        d8 == ReSub(<<SP, "|">>, <<"|">>, d7)
        d9 == ReSub(<<"{", SP>>, <<"{">>, d8)
        d10 == ReSub(<<"p", "l", "a", "y", NL>>, <<"p", "l", "a", "y", ";", NL>>, d9)
    IN Strip(d10)

(***************************************************************************)
(* The parsing provider: a small SuperCollider grammar                     *)
(*   source_file    := [stmt (";" stmt)* [";"]]                            *)
(*   stmt           := ["var"] identifier "=" expr | "var" identifier      *)
(*                   | expr                                                *)
(*   expr           := primary ("+" primary)*       (left associative)     *)
(*   primary        := identifier | function_block                         *)
(*   function_block := "{" [parameter_list] [stmt (";" stmt)* [";"]] "}"   *)
(*   parameter_list := "|" identifier ([","] identifier)* "|"              *)
(*                   | "arg" identifier ([","] identifier)* ";"            *)
(* White space separates tokens and belongs to no node.  A statement of    *)
(* the source file that does not parse becomes an ERROR node.              *)
(***************************************************************************)

Letters == {"a", "b", "c", "d", "e", "f", "g", "h", "i", "j", "k", "l", "m",
            "n", "o", "p", "q", "r", "s", "t", "u", "v", "w", "x", "y", "z", "_"}
Punctuation == {";", "{", "}", "|", ",", "+", "="}

RECURSIVE LetterRun(_, _)
LetterRun(s, i) ==
    IF i < Len(s) /\ s[i + 1] \in Letters THEN 1 + LetterRun(s, i + 1) ELSE 0

WordType(w) ==
    IF w = <<"v", "a", "r">> THEN "var"
    ELSE IF w = <<"a", "r", "g">> THEN "arg"
    ELSE "identifier"

\* Tokens [type, sb, eb] of s from offset i on.
RECURSIVE Lex(_, _)
Lex(s, i) ==
    IF i >= Len(s) THEN << >>
    ELSE LET c == s[i + 1] IN
         IF IsSpaceChar(c) THEN Lex(s, i + 1)
         ELSE IF c \in Letters THEN
              LET n == LetterRun(s, i)
              IN <<[type |-> WordType(SubSeq(s, i + 1, i + n)),
                    sb |-> i, eb |-> i + n]>> \o Lex(s, i + n)
         ELSE <<[type |-> IF c \in Punctuation THEN c ELSE "?",
                 sb |-> i, eb |-> i + 1]>> \o Lex(s, i + 1)

\* Nested syntax nodes.
Leaf(tok) == [type |-> tok.type, sb |-> tok.sb, eb |-> tok.eb, kids |-> << >>]
Inner(type, kids) ==
    [type |-> type, sb |-> kids[1].sb, eb |-> kids[Len(kids)].eb, kids |-> kids]
Fail == [ok |-> FALSE]
Ok(node, next) == [ok |-> TRUE, node |-> node, next |-> next]
OkKids(kids, next) == [ok |-> TRUE, kids |-> kids, next |-> next]
TokIs(toks, i, type) == i <= Len(toks) /\ toks[i].type = type

RECURSIVE ParseChain(_, _, _), ParsePrimary(_, _), ParseStmt(_, _),
          ParseStmtList(_, _), ParseParamRest(_, _, _), ParseBlock(_, _)

\* A chain of operands: r is the operand parsed at i, left the expression
\* before the operator at i - 1 (<< >> at the first operand).
ChainNode(toks, left, i, r) ==
    IF left = << >> THEN r.node
    ELSE Inner("binary_expression", <<left[1], Leaf(toks[i - 1]), r.node>>)

ChainNext(toks, node, j) ==
    IF TokIs(toks, j, "+") THEN ParseChain(toks, <<node>>, j + 1) ELSE Ok(node, j)

ChainAfter(toks, left, i, r) ==
    IF r.ok THEN ChainNext(toks, ChainNode(toks, left, i, r), r.next) ELSE Fail

ParseChain(toks, left, i) == ChainAfter(toks, left, i, ParsePrimary(toks, i))

ParseExpr(toks, i) == ParseChain(toks, << >>, i)

ParsePrimary(toks, i) ==
    IF TokIs(toks, i, "identifier") THEN Ok(Leaf(toks[i]), i + 1)
    ELSE IF TokIs(toks, i, "{") THEN ParseBlock(toks, i)
    ELSE Fail

\* name "=" value: kids are the name's nodes, the "=" is at i and r is the
\* value parsed after it.
Assigned(toks, kids, i, r) ==
    IF r.ok
    THEN Ok(Inner("variable_definition", kids \o <<Leaf(toks[i]), r.node>>),
            r.next)
    ELSE Fail

ParseStmt(toks, i) ==
    IF TokIs(toks, i, "var")
    THEN IF TokIs(toks, i + 1, "identifier")
         THEN IF TokIs(toks, i + 2, "=")
              THEN Assigned(toks, <<Leaf(toks[i]), Leaf(toks[i + 1])>>, i + 2,
                            ParseExpr(toks, i + 3))
              ELSE Ok(Inner("variable_definition",
                            <<Leaf(toks[i]), Leaf(toks[i + 1])>>), i + 2)
         ELSE Fail
    ELSE IF TokIs(toks, i, "identifier") /\ TokIs(toks, i + 1, "=")
    THEN Assigned(toks, <<Leaf(toks[i])>>, i + 1, ParseExpr(toks, i + 2))
    ELSE ParseExpr(toks, i)

\* s is a statement, rest the statements after its ";".
StmtListJoin(toks, s, rest) ==
    IF rest.ok
    THEN OkKids(<<s.node, Leaf(toks[s.next])>> \o rest.kids, rest.next)
    ELSE Fail

StmtListAfter(toks, s) ==
    IF ~s.ok THEN Fail
    ELSE IF TokIs(toks, s.next, ";")
    THEN StmtListJoin(toks, s, ParseStmtList(toks, s.next + 1))
    ELSE IF s.next > Len(toks) \/ TokIs(toks, s.next, "}")
    THEN OkKids(<<s.node>>, s.next)
    ELSE Fail

\* [stmt (";" stmt)* [";"]], ending before a "}" or at the end of the tokens.
ParseStmtList(toks, i) ==
    IF i > Len(toks) \/ TokIs(toks, i, "}") THEN OkKids(<< >>, i)
    ELSE StmtListAfter(toks, ParseStmt(toks, i))

\* The identifier at i, its "," when comma, and the parameters after it.
ParamJoin(toks, i, comma, rest) ==
    IF rest.ok
    THEN OkKids(<<Leaf(toks[i])>>
                \o (IF comma THEN <<Leaf(toks[i + 1])>> ELSE << >>)
                \o rest.kids,
                rest.next)
    ELSE Fail

ParamNext(toks, i, closer, comma) ==
    ParamJoin(toks, i, comma,
              ParseParamRest(toks, IF comma THEN i + 2 ELSE i + 1, closer))

\* After the opening delimiter: identifier ([","] identifier)* closer
ParseParamRest(toks, i, closer) ==
    IF ~TokIs(toks, i, "identifier") THEN Fail
    ELSE IF TokIs(toks, i + 1, closer)
    THEN OkKids(<<Leaf(toks[i]), Leaf(toks[i + 1])>>, i + 2)
    ELSE ParamNext(toks, i, closer, TokIs(toks, i + 1, ","))

ParamsAfter(toks, i, rest) ==
    IF rest.ok
    THEN Ok(Inner("parameter_list", <<Leaf(toks[i])>> \o rest.kids), rest.next)
    ELSE Fail

ParseParams(toks, i) ==
    ParamsAfter(toks, i,
                ParseParamRest(toks, i + 1,
                               IF TokIs(toks, i, "|") THEN "|" ELSE ";"))

\* The block that opens at i, with its parameter list (<< >> when it has
\* none) and its statements.
BlockAfter(toks, i, params, body) ==
    IF body.ok /\ TokIs(toks, body.next, "}")
    THEN Ok(Inner("function_block",
                  <<Leaf(toks[i])>> \o params \o body.kids
                  \o <<Leaf(toks[body.next])>>),
            body.next + 1)
    ELSE Fail

BlockBody(toks, i, params) ==
    IF ~params.ok THEN Fail
    ELSE BlockAfter(toks, i, <<params.node>>, ParseStmtList(toks, params.next))

ParseBlock(toks, i) ==
    IF TokIs(toks, i + 1, "|") \/ TokIs(toks, i + 1, "arg")
    THEN BlockBody(toks, i, ParseParams(toks, i + 1))
    ELSE BlockAfter(toks, i, << >>, ParseStmtList(toks, i + 1))

\* Index of the first ";" token at or after i, or Len(toks) + 1.
RECURSIVE NextSemicolon(_, _)
NextSemicolon(toks, i) ==
    IF i > Len(toks) \/ toks[i].type = ";" THEN i ELSE NextSemicolon(toks, i + 1)

\* Statements of the source file, with recovery at the next ";".
RECURSIVE ParseTop(_, _)
\* s is the statement parsed at i; j is where it ends or, when it does not
\* parse, where the ERROR node ends.
TopJoin(toks, i, s, good, j) ==
    <<IF good THEN s.node
      ELSE [type |-> "ERROR", sb |-> toks[i].sb, eb |-> toks[j - 1].eb,
            kids |-> << >>]>>
    \o (IF TokIs(toks, j, ";") THEN <<Leaf(toks[j])>> ELSE << >>)
    \o ParseTop(toks, IF TokIs(toks, j, ";") THEN j + 1 ELSE j)

TopEnd(toks, i, s, good) ==
    TopJoin(toks, i, s, good,
            IF good THEN s.next ELSE Max(NextSemicolon(toks, i), i + 1))

TopAfter(toks, i, s) ==
    TopEnd(toks, i, s,
           s.ok /\ (s.next > Len(toks) \/ TokIs(toks, s.next, ";")))

ParseTop(toks, i) ==
    IF i > Len(toks) THEN << >> ELSE TopAfter(toks, i, ParseStmt(toks, i))

\* (row, column) of byte offset off in text.
RECURSIVE RowOf(_, _)
RowOf(text, off) ==
    IF off <= 0 THEN 0
    ELSE (IF text[off] = NL THEN 1 ELSE 0) + RowOf(text, off - 1)
RECURSIVE ColOf(_, _)
ColOf(text, off) ==
    IF off <= 0 \/ text[off] = NL THEN 0 ELSE 1 + ColOf(text, off - 1)
PointOf(text, off) == <<RowOf(text, off), ColOf(text, off)>>

\* Document order (pre-order) list of nodes with parent indices.
RECURSIVE Flat(_, _, _, _), FlatKids(_, _, _, _, _)
Flat(text, n, parent, base) ==
    <<[type |-> n.type, sb |-> n.sb, eb |-> n.eb,
       sp |-> PointOf(text, n.sb), ep |-> PointOf(text, n.eb),
       parent |-> parent]>>
    \o FlatKids(text, n.kids, 1, base + 1, base + 1)
FlatKids(text, kids, k, parent, base) ==
    IF k > Len(kids) THEN << >>
    ELSE LET f == Flat(text, kids[k], parent, base)
         IN f \o FlatKids(text, kids, k + 1, parent, base + Len(f))

\* parser.parse(bytes(data, "utf8")): a full parse of data.
Parse(data) ==
    LET toks == Lex(data, 0)
        root == [type |-> "source_file",
                 sb |-> IF toks = << >> THEN 0 ELSE toks[1].sb,
                 eb |-> Len(data),
                 kids |-> ParseTop(toks, 1)]
    IN [text |-> data, nodes |-> Flat(data, root, 0, 0)]

(***************************************************************************)
(* Match engine                                                            *)
(***************************************************************************)

\* A query is a sequence of patterns [type, tag].  query.captures(root)
\* yields (node, tag) pairs in document order; a node is identified by its
\* index in tree.nodes.
RECURSIVE PatternCaptures(_, _, _, _)
PatternCaptures(tree, n, query, k) ==
    IF k > Len(query) THEN << >>
    ELSE (IF tree.nodes[n].type = query[k].type
          THEN <<[node |-> n, tag |-> query[k].tag]>> ELSE << >>)
         \o PatternCaptures(tree, n, query, k + 1)

RECURSIVE QueryCaptures(_, _, _)
QueryCaptures(tree, query, n) ==
    IF n > Len(tree.nodes) THEN << >>
    ELSE PatternCaptures(tree, n, query, 1) \o QueryCaptures(tree, query, n + 1)

Reverse(seq) == [i \in 1..Len(seq) |-> seq[Len(seq) + 1 - i]]

\* Capture tags in the order Python compares the strings.
TagRank(tag) ==
    CASE tag = "assignment" -> 1
      [] tag = "binary_exp" -> 2
      [] tag = "comma" -> 3
      [] tag = "function_block" -> 4
      [] tag = "no_newline_both" -> 5
      [] tag = "no_newline_to_left" -> 6
      [] tag = "no_newline_to_right" -> 7
      [] tag = "no_space_closing" -> 8
      [] tag = "no_space_opening" -> 9
      [] tag = "parameter_list" -> 10
      [] tag = "space_closing" -> 11
      [] tag = "space_opening" -> 12
      [] OTHER -> 13

\* a < b for two tree-sitter Node objects: the Node type defines equality
\* only, and answers False to every ordering comparison.
NodeLess(a, b) == FALSE

\* a < b for two (Node, tag) tuples: the first differing component decides.
CaptureLess(a, b) ==
    IF a.node = b.node THEN TagRank(a.tag) < TagRank(b.tag)
    ELSE NodeLess(a.node, b.node)

\* sorted(captures): a stable sort by the tuples' own less-than.
RECURSIVE InsertSorted(_, _)
InsertSorted(sorted, x) ==
    IF sorted = << >> THEN <<x>>
    ELSE IF CaptureLess(x, sorted[Len(sorted)])
    THEN InsertSorted(SubSeq(sorted, 1, Len(sorted) - 1), x)
         \o <<sorted[Len(sorted)]>>
    ELSE Append(sorted, x)
RECURSIVE PySorted(_)
PySorted(seq) ==
    IF seq = << >> THEN << >>
    ELSE InsertSorted(PySorted(SubSeq(seq, 1, Len(seq) - 1)), seq[Len(seq)])

\* The captures left in the order the query found them, first token first.
CapturesInDocumentOrder(tree, query) == PySorted(QueryCaptures(tree, query, 1))

\* The captures half of Helpers.get_query_result_and_newline_data.
SortedCaptures(tree, query) ==
    Reverse(PySorted(QueryCaptures(tree, query, 1)))

get_query_result_and_newline_data(tree, query, data) ==
    [captures |-> SortedCaptures(tree, query),
     newline_offsets |-> get_all_newline_offsets(data)]

\* node.children, as indices into tree.nodes
Children(tree, n) ==
    LET idx == {k \in 1..Len(tree.nodes) : tree.nodes[k].parent = n}
        RECURSIVE Ordered(_, _)
        Ordered(k, left) ==
            IF left = {} THEN << >>
            ELSE IF k \in left THEN <<k>> \o Ordered(k + 1, left \ {k})
            ELSE Ordered(k + 1, left)
    IN Ordered(1, idx)

\* node.text: the bytes of the node in the text the tree was parsed from
NodeText(tree, n) == PySlice(tree.text, tree.nodes[n].sb, tree.nodes[n].eb)

(***************************************************************************)
(* Format rules: the edit a rule makes for one match                       *)
(*                                                                         *)
(* A step returns [data, err]: the buffer after the edit, and None or the  *)
(* exception the step raised.                                              *)
(***************************************************************************)

\* str(n) for n >= 0
Digit(d) ==
    CASE d = 0 -> "0" [] d = 1 -> "1" [] d = 2 -> "2" [] d = 3 -> "3"
      [] d = 4 -> "4" [] d = 5 -> "5" [] d = 6 -> "6" [] d = 7 -> "7"
      [] d = 8 -> "8" [] d = 9 -> "9"
RECURSIVE Str(_)
Str(n) == IF n < 10 THEN <<Digit(n)>> ELSE Str(n \div 10) \o <<Digit(n % 10)>>

\* Helpers.replace_range(data, start_offset, end_offset, new_data): four
\* print() calls, the second and third of which index data[start_offset] and
\* data[end_offset], then new_data.join([data[:start_offset],
\* data[end_offset:]]).  out is what was printed, value the returned string
\* (<< >> when an exception left the function first).
HashLine == [k \in 1..12 |-> "#"]
StartLine(data, start_offset) ==
    <<"S", "t", "a", "r", "t", ":", SP>> \o Str(start_offset) \o <<SP, "[">>
        \o <<PyAt(data, start_offset)>> \o <<"]">>
EndLine(data, end_offset) ==
    <<"E", "n", "d", ":", SP>> \o Str(end_offset) \o <<SP, "[">>
        \o <<PyAt(data, end_offset)>> \o <<"]">>
replace_range(data, start_offset, end_offset, new_data) ==
    IF ~PyInRange(data, start_offset)
    THEN [out |-> <<HashLine>>, err |-> IndexError, value |-> << >>]
    ELSE IF ~PyInRange(data, end_offset)
    THEN [out |-> <<HashLine, StartLine(data, start_offset)>>,
          err |-> IndexError, value |-> << >>]
    ELSE [out |-> <<HashLine, StartLine(data, start_offset),
                    EndLine(data, end_offset), HashLine>>,
          err |-> None,
          value |-> <<PyTo(data, start_offset) \o new_data
                          \o PyFrom(data, end_offset)>>]

St(data) == [data |-> data, err |-> None]
Crash(data, e) == [data |-> data, err |-> e]

\* Both points of the node resolve in newline_offsets.
HasLines(node, newline_offsets) ==
    HasLine(newline_offsets, node.sp[1]) /\ HasLine(newline_offsets, node.ep[1])

\* ---- JoinElementsOntoSingleLines
JoinQuery ==
    <<[type |-> "[", tag |-> "no_newline_both"],
      [type |-> "]", tag |-> "no_newline_to_left"],
      [type |-> ".", tag |-> "no_newline_both"],
      [type |-> "|", tag |-> "no_newline_both"],
      [type |-> "{", tag |-> "no_newline_to_right"],
      [type |-> "}", tag |-> "no_newline_to_left"],
      [type |-> "(", tag |-> "no_newline_to_right"],
      [type |-> ")", tag |-> "no_newline_to_left"]>>

JoinLeft(data, loc) ==
    LET ltc == loc - 1 IN
    IF ~PyInRange(data, ltc) THEN Crash(data, IndexError)
    ELSE IF PyAt(data, ltc) # NL THEN St(data)
    ELSE LET d1 == PyTo(data, ltc) \o PyFrom(data, loc)
             ltc2 == ltc - 1
         IN IF ~PyInRange(d1, ltc2) THEN Crash(d1, IndexError)
            ELSE IF PyAt(d1, ltc2) = NL
            THEN St(PyTo(d1, ltc2) \o PyFrom(d1, loc - 1))
            ELSE St(d1)

JoinRight(data, loc) ==
    LET ltc == loc + 1 IN
    IF ~PyInRange(data, ltc) THEN Crash(data, IndexError)
    ELSE IF PyAt(data, ltc) # NL THEN St(data)
    ELSE LET d1 == PyTo(data, ltc) \o PyFrom(data, ltc + 1)
         IN IF ~PyInRange(d1, ltc) THEN Crash(d1, IndexError)
            ELSE IF PyAt(d1, ltc) = NL
            THEN St(PyTo(d1, ltc) \o PyFrom(d1, ltc + 1))
            ELSE St(d1)

JoinStep(data, tree, newline_offsets, match) ==
    LET node == tree.nodes[match.node] IN
    IF ~HasLine(newline_offsets, node.sp[1]) THEN Crash(data, IndexError)
    ELSE LET loc == Resolve(newline_offsets, node.sp)
             left == IF match.tag \in {"no_newline_to_left", "no_newline_both"}
                     THEN JoinLeft(data, loc) ELSE St(data)
         IN IF loc + 1 >= Len(data) THEN St(data)
            ELSE IF left.err # None THEN left
            ELSE IF match.tag \in {"no_newline_to_right", "no_newline_both"}
            THEN JoinRight(left.data, loc)
            ELSE left

\* ---- BinaryOperatorSpacing (the edit for one operator node)
BinaryQuery == <<[type |-> "binary_expression", tag |-> "binary_exp"]>>

\* BinaryOperatorSpacing's edit with the left side left alone.
BinaryStepRightSideOnly(data, tree, newline_offsets, op) ==
    LET node == tree.nodes[op] IN
    IF ~HasLines(node, newline_offsets) THEN Crash(data, IndexError)
    ELSE LET s == Resolve(newline_offsets, node.sp)
             e == Resolve(newline_offsets, node.ep)
             operator == PySlice(data, s, e)
         IN IF ~PyInRange(data, e) THEN Crash(data, IndexError)
            ELSE IF PyAt(data, e) # SP
            THEN St(PyTo(data, s) \o operator \o <<SP>> \o PyFrom(data, e))
            ELSE St(data)

BinaryStep(data, tree, newline_offsets, op) ==
    LET node == tree.nodes[op] IN
    IF ~HasLines(node, newline_offsets) THEN Crash(data, IndexError)
    ELSE LET s == Resolve(newline_offsets, node.sp)
             e == Resolve(newline_offsets, node.ep)
             operator == PySlice(data, s, e)
         IN IF ~PyInRange(data, e) THEN Crash(data, IndexError)
            ELSE LET d1 == IF PyAt(data, e) # SP
                           THEN PyTo(data, s) \o operator \o <<SP>> \o PyFrom(data, e)
                           ELSE data
                 IN IF ~PyInRange(d1, s - 1) THEN Crash(d1, IndexError)
                    ELSE IF PyAt(d1, s - 1) # SP
                    THEN St(PyTo(d1, s) \o <<SP>> \o operator \o PyFrom(d1, e))
                    ELSE St(d1)

\* ---- AddSpacesAfterCommas
CommaQuery == <<[type |-> ",", tag |-> "comma"]>>

CommaStep(data, tree, newline_offsets, match) ==
    LET node == tree.nodes[match.node] IN
    IF ~HasLine(newline_offsets, node.sp[1]) THEN Crash(data, IndexError)
    ELSE LET loc == Resolve(newline_offsets, node.sp) IN
         IF ~PyInRange(data, loc + 1) THEN Crash(data, IndexError)
         ELSE LET d1 == IF PyAt(data, loc + 1) # SP
                        THEN PyTo(data, loc + 1) \o <<SP>> \o PyFrom(data, loc + 1)
                        ELSE data
              IN IF ~PyInRange(d1, loc - 1) THEN Crash(d1, IndexError)
                 ELSE IF PyAt(d1, loc - 1) = SP
                 THEN St(PyTo(d1, loc - 1) \o PyFrom(d1, loc))
                 ELSE St(d1)

\* ---- AddSpacesAroundAssignment
AssignmentQuery == <<[type |-> "=", tag |-> "assignment"]>>

AssignmentStep(data, tree, newline_offsets, match) ==
    LET node == tree.nodes[match.node] IN
    IF ~HasLine(newline_offsets, node.sp[1]) THEN Crash(data, IndexError)
    ELSE LET loc == Resolve(newline_offsets, node.sp) IN
         IF ~PyInRange(data, loc + 1) THEN Crash(data, IndexError)
         ELSE LET d1 == IF PyAt(data, loc + 1) # SP
                        THEN PyTo(data, loc + 1) \o <<SP>> \o PyFrom(data, loc + 1)
                        ELSE data
              IN IF ~PyInRange(d1, loc - 1) THEN Crash(d1, IndexError)
                 ELSE IF PyAt(d1, loc - 1) # SP
                 THEN St(PyTo(d1, loc) \o <<SP>> \o PyFrom(d1, loc))
                 ELSE St(d1)

\* ---- BracketSpacing
BracketQuery ==
    <<[type |-> "(", tag |-> "no_space_opening"],
      [type |-> ")", tag |-> "no_space_closing"],
      [type |-> "[", tag |-> "no_space_opening"],
      [type |-> "]", tag |-> "no_space_closing"],
      [type |-> "{", tag |-> "space_opening"],
      [type |-> "}", tag |-> "space_closing"]>>

BracketStep(data, tree, newline_offsets, match) ==
    LET node == tree.nodes[match.node] IN
    IF ~HasLine(newline_offsets, node.sp[1]) THEN Crash(data, IndexError)
    ELSE LET loc == Resolve(newline_offsets, node.sp)
             opening == match.tag \in {"no_space_opening", "space_opening"}
             ltc == IF opening THEN loc + 1 ELSE loc - 1
         IN IF match.tag \notin {"no_space_opening", "no_space_closing",
                                 "space_opening", "space_closing"}
            THEN St(data)
            ELSE IF ~PyInRange(data, ltc) THEN Crash(data, IndexError)
            ELSE LET c == PyAt(data, ltc) IN
                 CASE match.tag = "no_space_opening" ->
                        IF c = SP
                        THEN St(PyTo(data, loc + 1) \o PyFrom(data, ltc + 1))
                        ELSE St(data)
                   [] match.tag = "no_space_closing" ->
                        IF c = SP
                        THEN St(PyTo(data, ltc) \o PyFrom(data, loc))
                        ELSE St(data)
                   [] match.tag = "space_opening" ->
                        IF c # SP
                        THEN St(PyTo(data, ltc) \o <<SP>> \o PyFrom(data, loc + 1))
                        ELSE St(data)
                   [] match.tag = "space_closing" ->
                        IF c # SP
                        THEN St(PyTo(data, ltc + 1) \o <<SP>> \o PyFrom(data, loc))
                        ELSE St(data)

(***************************************************************************)
(* Format rules that replace the text of a node                            *)
(*                                                                         *)
(* An edit is [s, e, text, err]: the range [s, e) of the buffer the rule   *)
(* replaces for the match, computed from the buffer it is given, and the   *)
(* replacement.                                                            *)
(***************************************************************************)

Edit(s, e, text) == [s |-> s, e |-> e, text |-> text, err |-> None]
NoEdit(e) == [s |-> 0, e |-> 0, text |-> << >>, err |-> e]

\* data[:s] + text + data[e:]
Splice(data, edit) ==
    IF edit.err # None THEN Crash(data, edit.err)
    ELSE St(PyTo(data, edit.s) \o edit.text \o PyFrom(data, edit.e))

\* re.sub(c + "$", r, t) for a single character c: "$" matches at the end
\* of the text and before a newline that ends the text.
SubAtEnd(t, c, r) ==
    LET n == Len(t) IN
    IF n >= 1 /\ t[n] = c THEN SubSeq(t, 1, n - 1) \o r
    ELSE IF n >= 2 /\ t[n] = NL /\ t[n - 1] = c
    THEN SubSeq(t, 1, n - 2) \o r \o <<NL>>
    ELSE t

\* re.sub("^arg |;$", "|", t)
SubArgDelimiters(t) ==
    LET arg == <<"a", "r", "g", SP>> IN
    IF MatchAt(t, 0, arg)
    THEN <<"|">> \o SubAtEnd(PyFrom(t, Len(arg)), ";", <<"|">>)
    ELSE SubAtEnd(t, ";", <<"|">>)

\* re.sub("(?<!,) ", ", ", t)
RECURSIVE SubBareSpaces(_, _)
SubBareSpaces(t, i) ==
    IF i >= Len(t) THEN << >>
    ELSE (IF t[i + 1] = SP /\ (i = 0 \/ t[i] # ",")
          THEN <<",", SP>> ELSE <<t[i + 1]>>)
         \o SubBareSpaces(t, i + 1)

\* ---- FormatParameterLists
ParameterListQuery == <<[type |-> "parameter_list", tag |-> "parameter_list"]>>

FormatParameterListsEdit(data, tree, newline_offsets, match) ==
    LET node == tree.nodes[match.node] IN
    IF ~HasLines(node, newline_offsets) THEN NoEdit(IndexError)
    ELSE LET s == Resolve(newline_offsets, node.sp)
             e == Resolve(newline_offsets, node.ep)
             argument_list == PySlice(data, s, e)
         IN Edit(s, e, SubBareSpaces(SubArgDelimiters(argument_list), 0))

FormatParameterListsStep(data, tree, newline_offsets, match) ==
    Splice(data, FormatParameterListsEdit(data, tree, newline_offsets, match))

\* ---- ParameterListAlignment
ParameterListAlignmentStep(data, tree, newline_offsets, match) ==
    LET node == tree.nodes[match.node] IN
    IF ~HasLines(node, newline_offsets) THEN Crash(data, IndexError)
    ELSE LET s == Resolve(newline_offsets, node.sp)
             e == Resolve(newline_offsets, node.ep)
             argument_list == PySlice(data, s, e)
         IN IF ~PyInRange(data, e) THEN Crash(data, IndexError)
            ELSE IF PyAt(data, e) # SP
            THEN St(PyTo(data, s) \o argument_list \o <<SP>> \o PyFrom(data, e))
            ELSE St(data)

\* ---- FormatReturnStatement
FunctionBlockQuery == <<[type |-> "function_block", tag |-> "function_block"]>>

\* The loop over reversed(children): k runs from the last child down.
\* Returns the child that is neither ";" nor "}" and whether a ";" was seen.
RECURSIVE FindReturnStatement(_, _, _, _)
FindReturnStatement(tree, kids, k, semicolon_found) ==
    IF k < 1 THEN [found |-> FALSE, semicolon_found |-> semicolon_found]
    ELSE LET type == tree.nodes[kids[k]].type
             seen == semicolon_found \/ type = ";"
         IN IF type # "}" /\ type # ";"
            THEN [found |-> TRUE, node |-> kids[k], semicolon_found |-> seen]
            ELSE FindReturnStatement(tree, kids, k - 1, seen)

FormatReturnStatementEdit(data, tree, newline_offsets, match) ==
    LET kids == Children(tree, match.node)
        r == FindReturnStatement(tree, kids, Len(kids), FALSE)
    IN IF ~r.found THEN NoEdit(UnboundLocalError)
       ELSE LET node == tree.nodes[r.node] IN
            IF ~HasLines(node, newline_offsets) THEN NoEdit(IndexError)
            ELSE LET s == Resolve(newline_offsets, node.sp)
                     e == Resolve(newline_offsets, node.ep)
                     text == ReSub(<<";">>, << >>, PySlice(data, s, e))
                 IN IF r.semicolon_found THEN Edit(s, e + 1, text)
                    ELSE Edit(s, e, text)

FormatReturnStatementStep(data, tree, newline_offsets, match) ==
    Splice(data, FormatReturnStatementEdit(data, tree, newline_offsets, match))

\* ---- AddNewlinesInFunctions
type_filters == {";", "parameter_list", "{", "}"}
line_filter == <<"v", "a", "r", SP>>

StartsWithVar(tree, n) == MatchAt(NodeText(tree, n), 0, line_filter)

\* list(filter(pred, seq))
RECURSIVE Filter(_, _, _)
Filter(seq, k, keep) ==
    IF k > Len(seq) THEN << >>
    ELSE (IF seq[k] \in keep THEN <<seq[k]>> ELSE << >>) \o Filter(seq, k + 1, keep)

\* The collapse decision; "and" evaluates left to right and stops at the
\* first false operand, so the comparison with maximum_line_length happens
\* only for blocks of at most three statements.
CollapseDecision(arguments, n_children, function_length, n_vars) ==
    IF ~(n_children <= 3) THEN [collapse |-> FALSE, err |-> None]
    ELSE IF arguments.maximum_line_length.type # "int"
    THEN [collapse |-> FALSE, err |-> TypeError]
    ELSE [collapse |-> function_length <= arguments.maximum_line_length.val
                       /\ n_vars = 1,
          err |-> None]

ExpandText(text) ==
    LET t1 == ReSub(<<";", SP>>, <<";", NL>>, text)
        t2 == ReSub(<<"|", SP, "v", "a", "r">>, <<"|", NL, "v", "a", "r">>, t1)
        t3 == ReSub(<<NL, NL>>, <<NL>>, t2)
    IN SubAtEnd(t3, "}", <<NL, "}">>)

AddNewlinesInFunctionsEdit(arguments, data, tree, newline_offsets, match) ==
    LET node == tree.nodes[match.node] IN
    IF ~HasLines(node, newline_offsets) THEN NoEdit(IndexError)
    ELSE LET s == Resolve(newline_offsets, node.sp)
             e == Resolve(newline_offsets, node.ep)
             kids == Children(tree, match.node)
             vars == {k \in 1..Len(tree.nodes) : StartsWithVar(tree, k)}
             stmts == {k \in 1..Len(tree.nodes) :
                          /\ ~StartsWithVar(tree, k)
                          /\ tree.nodes[k].type \notin type_filters}
             children == Filter(kids, 1, stmts)
             var_list == Filter(kids, 1, vars)
             decision == CollapseDecision(arguments, Len(children), e - s,
                                          Len(var_list))
             text == NodeText(tree, match.node)
         IN IF decision.err # None THEN NoEdit(decision.err)
            ELSE IF decision.collapse THEN Edit(s, e, ReSub(<<NL>>, << >>, text))
            ELSE Edit(s, e, ExpandText(text))

AddNewlinesInFunctionsStep(arguments, data, tree, newline_offsets, match) ==
    Splice(data,
           AddNewlinesInFunctionsEdit(arguments, data, tree, newline_offsets, match))

(***************************************************************************)
(* IndentFile: the cursor walk with point edits of the live tree           *)
(***************************************************************************)

nodes_to_investigate ==
    {"arithmetic_series", "code_block", "function_block", "method_name",
     "variable_definition"}

\* TreeCursor moves over the document-order node list; 0 means "no such node".
FirstChild(nodes, n) ==
    IF n + 1 <= Len(nodes) /\ nodes[n + 1].parent = n THEN n + 1 ELSE 0
NextSibling(nodes, n) ==
    LET later == {k \in (n + 1)..Len(nodes) : nodes[k].parent = nodes[n].parent}
    IN IF nodes[n].parent = 0 \/ later = {} THEN 0
       ELSE CHOOSE k \in later : \A j \in later : k <= j

\* The retracing loop: up to the parent until a next sibling exists; 0 when
\* the root is reached.
RECURSIVE Retrace(_, _)
Retrace(nodes, n) ==
    LET p == nodes[n].parent IN
    IF p = 0 THEN 0
    ELSE IF NextSibling(nodes, p) # 0 THEN NextSibling(nodes, p)
    ELSE Retrace(nodes, p)

\* Where the traversal goes after visiting n: first child, else next
\* sibling, else retrace.
Advance(nodes, n) ==
    IF FirstChild(nodes, n) # 0 THEN FirstChild(nodes, n)
    ELSE IF NextSibling(nodes, n) # 0 THEN NextSibling(nodes, n)
    ELSE Retrace(nodes, n)

\* ---- Helpers.traverse_tree
\* The generator's state is [cursor, yielded, reached_root]; yielded lists
\* the nodes handed out so far.
\* The retracing loop gone wrong: one step up and out, without looking
\* further up for an ancestor's next sibling.
TraverseRetraceOneStep(nodes, n) ==
    LET p == nodes[n].parent IN
    IF p = 0 THEN [cursor |-> n, reached_root |-> TRUE]
    ELSE IF NextSibling(nodes, p) # 0
    THEN [cursor |-> NextSibling(nodes, p), reached_root |-> FALSE]
    ELSE [cursor |-> p, reached_root |-> FALSE]

\* The retracing loop: goto_parent until it fails (the cursor is at the
\* root) or the node reached has a next sibling.
RECURSIVE TraverseRetrace(_, _)
TraverseRetrace(nodes, n) ==
    LET p == nodes[n].parent IN
    IF p = 0 THEN [cursor |-> n, reached_root |-> TRUE]
    ELSE IF NextSibling(nodes, p) # 0
    THEN [cursor |-> NextSibling(nodes, p), reached_root |-> FALSE]
    ELSE TraverseRetrace(nodes, p)

TraverseStart ==
    [helper |-> "traverse_tree", cursor |-> 1, yielded |-> << >>,
     reached_root |-> FALSE]

\* One round of the while loop: the yield, then the cursor moves.
TraverseMove(nodes, n) ==
    IF FirstChild(nodes, n) # 0
    THEN [cursor |-> FirstChild(nodes, n), reached_root |-> FALSE]
    ELSE IF NextSibling(nodes, n) # 0
    THEN [cursor |-> NextSibling(nodes, n), reached_root |-> FALSE]
    ELSE TraverseRetrace(nodes, n)
TraverseMoved(g, m) ==
    [g EXCEPT !.yielded = Append(g.yielded, g.cursor),
              !.cursor = m.cursor, !.reached_root = m.reached_root]
traverse_tree(nodes, g) == TraverseMoved(g, TraverseMove(nodes, g.cursor))

\* ---- Helpers.get_significant_tree_nodes
\* The generator's state is [cursor, level, end_of_block, yielded,
\* reached_root, err]; yielded lists the [node, level] pairs handed out.
IsSignificant(nodes, n) == nodes[n].type \in nodes_to_investigate

\* The retracing loop: level goes down by one for each significant node the
\* cursor leaves upwards, and once more when goto_parent fails on one.
RECURSIVE SignificantRetrace(_, _, _)
SignificantRetrace(nodes, n, level) ==
    LET p == nodes[n].parent
        left == IF IsSignificant(nodes, n) THEN level - 1 ELSE level
    IN IF p = 0
       THEN [cursor |-> n, reached_root |-> TRUE,
             level |-> IF IsSignificant(nodes, n) THEN left - 1 ELSE left]
       ELSE IF NextSibling(nodes, p) # 0
       THEN [cursor |-> NextSibling(nodes, p), reached_root |-> FALSE,
             level |-> left]
       ELSE SignificantRetrace(nodes, p, left)

SignificantStart ==
    [helper |-> "get_significant_tree_nodes", cursor |-> 1, level |-> 0,
     end_of_block |-> << >>, yielded |-> << >>, reached_root |-> FALSE,
     err |-> None]

\* The yield of one round of the while loop.
SignificantYield(nodes, g) ==
    IF IsSignificant(nodes, g.cursor)
    THEN [g EXCEPT !.yielded =
                      Append(g.yielded, [node |-> g.cursor, level |-> g.level])]
    ELSE g

\* end_of_block.pop() when the node under the cursor starts at or after the
\* last recorded end.
SignificantPop(nodes, newline_offsets, g) ==
    IF g.end_of_block = << >> THEN g
    ELSE IF ~HasLine(newline_offsets, nodes[g.cursor].sp[1])
    THEN [g EXCEPT !.err = IndexError]
    ELSE IF get_start_of_node(nodes[g.cursor], newline_offsets)
               >= g.end_of_block[Len(g.end_of_block)]
    THEN [g EXCEPT !.end_of_block = SubSeq(g.end_of_block, 1,
                                           Len(g.end_of_block) - 1)]
    ELSE g

\* The cursor has moved down or sideways to node n.
SignificantEnter(nodes, newline_offsets, g, n) ==
    IF ~IsSignificant(nodes, n) THEN [g EXCEPT !.cursor = n]
    ELSE IF ~HasLine(newline_offsets, nodes[n].ep[1])
    THEN [g EXCEPT !.cursor = n, !.level = g.level + 1, !.err = IndexError]
    ELSE [g EXCEPT !.cursor = n, !.level = g.level + 1,
                   !.end_of_block =
                       Append(g.end_of_block,
                              get_end_of_node(nodes[n], newline_offsets))]

SignificantRetraced(g, m) ==
    [g EXCEPT !.cursor = m.cursor, !.level = m.level,
              !.reached_root = m.reached_root]

SignificantMove(nodes, newline_offsets, g) ==
    IF g.err # None THEN g
    ELSE IF FirstChild(nodes, g.cursor) # 0
    THEN SignificantEnter(nodes, newline_offsets, g,
                          FirstChild(nodes, g.cursor))
    ELSE IF NextSibling(nodes, g.cursor) # 0
    THEN SignificantEnter(nodes, newline_offsets, g,
                          NextSibling(nodes, g.cursor))
    ELSE SignificantRetraced(g, SignificantRetrace(nodes, g.cursor, g.level))

get_significant_tree_nodes(nodes, newline_offsets, g) ==
    SignificantMove(nodes, newline_offsets,
                    SignificantPop(nodes, newline_offsets,
                                   SignificantYield(nodes, g)))

\* Tree.edit: how the parsing library moves a position (byte, point) for an
\* edit [start_byte, old_end_byte, new_end_byte, start_point, old_end_point,
\* new_end_point]: a position at or after the old end keeps its distance
\* from the end of the edit.  The library computes the column distance in
\* unsigned 32-bit arithmetic; the sum below is that result whenever
\* new_end_point is not left of old_end_point, which holds for both edits
\* IndentFile makes.
EditPoint(point, edit) ==
    IF point[1] > edit.old_end_point[1]
    THEN <<edit.new_end_point[1] + (point[1] - edit.old_end_point[1]), point[2]>>
    ELSE <<edit.new_end_point[1],
           edit.new_end_point[2] + point[2] - edit.old_end_point[2]>>
EditPosition(byte, point, edit) ==
    IF byte >= edit.old_end_byte
    THEN [byte |-> edit.new_end_byte + (byte - edit.old_end_byte),
          point |-> EditPoint(point, edit)]
    ELSE IF byte > edit.start_byte
    THEN [byte |-> edit.new_end_byte, point |-> edit.new_end_point]
    ELSE [byte |-> byte, point |-> point]

TreeEdit(nodes, edit) ==
    [k \in 1..Len(nodes) |->
        LET s == EditPosition(nodes[k].sb, nodes[k].sp, edit)
            e == EditPosition(nodes[k].eb, nodes[k].ep, edit)
        IN [nodes[k] EXCEPT !.sb = s.byte, !.sp = s.point,
                            !.eb = e.byte, !.ep = e.point]]

\* The body of the while loop for the node under the cursor.  The walk
\* state is [data, nodes, cur, text_start, node_start, out, err]; out is
\* what print() wrote.  A local that has not been assigned yet is << >>, an
\* assigned one is <<value>>.
IndentFunctionBlock(w) ==
    LET first == FirstChild(w.nodes, w.cur)
        \* argument_check_cursor is the cursor itself: both moves move it
        second == IF first = 0 THEN w.cur
                  ELSE IF NextSibling(w.nodes, first) = 0 THEN first
                  ELSE NextSibling(w.nodes, first)
        node == w.nodes[second]
        printed == Append(w.out, node.type)
        newline_offsets == get_all_newline_offsets(w.data)
    IN IF node.type = "parameter_list"
       THEN IF ~HasLines(node, newline_offsets)
            THEN [w EXCEPT !.cur = second, !.out = printed, !.err = IndexError]
            ELSE LET text_start == get_start_of_node(node, newline_offsets)
                     text_end == get_end_of_node(node, newline_offsets)
                     edit == [start_byte |-> text_start,
                              old_end_byte |-> text_start + 1,
                              new_end_byte |-> text_start + 1,
                              start_point |-> node.sp,
                              old_end_point |-> node.ep,
                              new_end_point |-> node.ep]
                 IN [w EXCEPT !.cur = second, !.out = printed,
                              !.text_start = <<text_start>>,
                              !.node_start = <<node.sp>>,
                              !.data = PyTo(w.data, text_end) \o <<NL>>
                                       \o PyFrom(w.data, text_end + 1),
                              !.nodes = TreeEdit(w.nodes, edit)]
       ELSE IF w.text_start = << >>
            THEN [w EXCEPT !.cur = second, !.out = printed,
                           !.err = UnboundLocalError]
            ELSE LET edit == [start_byte |-> w.text_start[1],
                              old_end_byte |-> w.text_start[1] + 1,
                              new_end_byte |-> w.text_start[1] + 1,
                              start_point |-> w.node_start[1],
                              old_end_point |-> node.ep,
                              new_end_point |-> node.ep]
                 IN [w EXCEPT !.cur = second, !.out = printed,
                              !.data = PyTo(w.data, w.text_start[1]) \o <<NL>>
                                       \o PyFrom(w.data, w.text_start[1] + 1),
                              !.nodes = TreeEdit(w.nodes, edit)]

IndentOtherNode(w) ==
    LET node == w.nodes[w.cur]
        newline_offsets == get_all_newline_offsets(w.data)
    IN IF ~HasLines(node, newline_offsets) THEN [w EXCEPT !.err = IndexError]
       ELSE LET text_start == get_start_of_node(node, newline_offsets)
                edit == [start_byte |-> text_start,
                         old_end_byte |-> text_start + 1,
                         new_end_byte |-> text_start + 2,
                         start_point |-> node.sp,
                         old_end_point |-> node.ep,
                         new_end_point |-> <<node.ep[1], node.ep[2] + 1>>]
            IN [w EXCEPT !.text_start = <<text_start>>,
                         !.node_start = <<node.sp>>,
                         !.data = PyTo(w.data, text_start) \o <<NL>>
                                  \o PyFrom(w.data, text_start),
                         !.nodes = TreeEdit(w.nodes, edit)]

IndentVisit(w) ==
    IF w.nodes[w.cur].type \notin nodes_to_investigate THEN w
    ELSE IF w.nodes[w.cur].type = "function_block" THEN IndentFunctionBlock(w)
    ELSE IndentOtherNode(w)

RECURSIVE IndentWalk(_)
IndentWalk(w) ==
    LET v == IndentVisit(w)
        next == Advance(v.nodes, v.cur)
    IN IF v.err # None \/ next = 0 THEN v
       ELSE IndentWalk([v EXCEPT !.cur = next])

IndentFile(data, tree) ==
    IndentWalk([data |-> data, nodes |-> tree.nodes, cur |-> 1,
                text_start |-> << >>, node_start |-> << >>,
                out |-> << >>, err |-> None])

(***************************************************************************)
(* Whole rules                                                             *)
(***************************************************************************)

pre_format ==
    <<"NoMoreThan80Characters", "StripTrailingWhitespace",
      "JoinElementsOntoSingleLines">>
inline_format ==
    <<"FormatParameterLists", "BracketSpacing", "DontUseSpaceBeforeSemicolons",
      "AddSpacesAroundAssignment", "BinaryOperatorSpacing",
      "AddSpacesAfterCommas", "FormatReturnStatement",
      "ParameterListAlignment">>
post_format == <<"AddNewlinesInFunctions", "IndentFile", "EndOfFileNewLine">>

\* The query a rule runs, for the rules that loop over captures.
RuleQuery(rule) ==
    CASE rule = "JoinElementsOntoSingleLines" -> JoinQuery
      [] rule = "FormatParameterLists" -> ParameterListQuery
      [] rule = "BracketSpacing" -> BracketQuery
      [] rule = "AddSpacesAroundAssignment" -> AssignmentQuery
      [] rule = "BinaryOperatorSpacing" -> BinaryQuery
      [] rule = "AddSpacesAfterCommas" -> CommaQuery
      [] rule = "FormatReturnStatement" -> FunctionBlockQuery
      [] rule = "ParameterListAlignment" -> ParameterListQuery
      [] rule = "AddNewlinesInFunctions" -> FunctionBlockQuery
      [] OTHER -> << >>

\* The body of the rule's for loop for one match.
RuleStep(rule, arguments, data, tree, newline_offsets, match) ==
    CASE rule = "JoinElementsOntoSingleLines" ->
            JoinStep(data, tree, newline_offsets, match)
      [] rule = "FormatParameterLists" ->
            FormatParameterListsStep(data, tree, newline_offsets, match)
      [] rule = "BracketSpacing" ->
            BracketStep(data, tree, newline_offsets, match)
      [] rule = "AddSpacesAroundAssignment" ->
            AssignmentStep(data, tree, newline_offsets, match)
      [] rule = "BinaryOperatorSpacing" ->
            BinaryStep(data, tree, newline_offsets, match)
      [] rule = "AddSpacesAfterCommas" ->
            CommaStep(data, tree, newline_offsets, match)
      [] rule = "FormatReturnStatement" ->
            FormatReturnStatementStep(data, tree, newline_offsets, match)
      [] rule = "ParameterListAlignment" ->
            ParameterListAlignmentStep(data, tree, newline_offsets, match)
      [] rule = "AddNewlinesInFunctions" ->
            AddNewlinesInFunctionsStep(arguments, data, tree, newline_offsets,
                                       match)

\* a < b for the sort key [start_point, end_point]
PointLess(a, b) == a[1] < b[1] \/ (a[1] = b[1] /\ a[2] < b[2])
KeyLess(tree, a, b) ==
    \/ PointLess(tree.nodes[a].sp, tree.nodes[b].sp)
    \/ tree.nodes[a].sp = tree.nodes[b].sp
       /\ PointLess(tree.nodes[a].ep, tree.nodes[b].ep)

\* sorted(operators, key = [start_point, end_point], reverse = True):
\* stable, largest key first.
RECURSIVE InsertOperator(_, _, _)
InsertOperator(tree, sorted, x) ==
    IF sorted = << >> THEN <<x>>
    ELSE IF KeyLess(tree, sorted[Len(sorted)], x)
    THEN InsertOperator(tree, SubSeq(sorted, 1, Len(sorted) - 1), x)
         \o <<sorted[Len(sorted)]>>
    ELSE Append(sorted, x)
RECURSIVE SortOperators(_, _)
SortOperators(tree, seq) ==
    IF seq = << >> THEN << >>
    ELSE InsertOperator(tree, SortOperators(tree, SubSeq(seq, 1, Len(seq) - 1)),
                        seq[Len(seq)])

\* match[0].children[1] of every captured binary expression, then sorted
Operators(tree, captures) ==
    SortOperators(tree, [k \in 1..Len(captures) |->
                            Children(tree, captures[k].node)[2]])

\* What the rule's for loop iterates over.
RuleMatches(rule, tree, captures) ==
    IF rule = "BinaryOperatorSpacing" THEN Operators(tree, captures)
    ELSE captures

\* The for loop from match k on; stops at the first exception.
RECURSIVE ApplyMatches(_, _, _, _, _, _, _)
ApplyMatches(rule, arguments, st, tree, newline_offsets, matches, k) ==
    IF st.err # None \/ k > Len(matches) THEN st
    ELSE ApplyMatches(rule, arguments,
             RuleStep(rule, arguments, st.data, tree, newline_offsets, matches[k]),
             tree, newline_offsets, matches, k + 1)

\* _FormatRule__format of each rule: [data, tree, out, err]
Private(rule, arguments, data, tree) ==
    CASE rule = "NoMoreThan80Characters" ->
            [data |-> data, tree |-> tree, out |-> << >>, err |-> None]
      [] rule = "StripTrailingWhitespace" ->
            [data |-> RStrip(data), tree |-> tree, out |-> << >>, err |-> None]
      [] rule = "DontUseSpaceBeforeSemicolons" ->
            [data |-> ReSub(<<SP, ";">>, <<";">>, data), tree |-> tree,
             out |-> << >>, err |-> None]
      [] rule = "EndOfFileNewLine" ->
            [data |-> data \o <<NL>>, tree |-> tree, out |-> << >>,
             err |-> None]
      [] rule = "IndentFile" ->
            LET w == IndentFile(data, tree)
            IN [data |-> w.data, tree |-> [tree EXCEPT !.nodes = w.nodes],
                out |-> w.out, err |-> w.err]
      [] OTHER ->
            LET q == get_query_result_and_newline_data(tree, RuleQuery(rule), data)
                st == ApplyMatches(rule, arguments, St(data), tree,
                                   q.newline_offsets,
                                   RuleMatches(rule, tree, q.captures), 1)
            IN [data |-> st.data, tree |-> tree, out |-> << >>, err |-> st.err]

\* Helpers.get_tree: a full parse without a previous tree; with one, the
\* parser reuses the nodes of the previous tree.
get_tree(data, tree) ==
    IF tree = None THEN Parse(data) ELSE [tree EXCEPT !.text = data]

\* FormatRule.format without the parse after the private hook.
format_keeps_tree(rule, arguments, data, tree) ==
    LET r == Private(rule, arguments, data, tree)
    IN [data |-> r.data, tree |-> r.tree, private_tree |-> r.tree,
        out |-> r.out, err |-> r.err]

\* FormatRule.format: the private hook, then a parse of what it returned.
\* private_tree is the tree the hook handed back.
Reparsed(r) ==
    [data |-> r.data,
     tree |-> IF r.err = None THEN get_tree(r.data, None) ELSE r.tree,
     private_tree |-> r.tree,
     out |-> r.out, err |-> r.err]

format(rule, arguments, data, tree) ==
    Reparsed(Private(rule, arguments, data, tree))

(***************************************************************************)
(* main: one run of the formatter over a file                              *)
(***************************************************************************)

VARIABLES
    pc,            \* where main is: "args", "start", "check", "pre", "inline",
                   \* "post", "print", and how it ended: "usage", "rejected",
                   \* "crashed", "done"
    argv,          \* the options given on the command line
    file,          \* the text read_file returns
    arguments,     \* the parsed command line, None before parse_arguments
    exception,     \* the exception that ended the process, None if none
    data,          \* the buffer
    tree,          \* the tree main holds
    private_tree,  \* the tree the last private hook returned
    index,         \* position of the next rule in its list (1-based)
    last_rule,     \* the rule that ran last, None before the first
    received,      \* the buffer that rule was called with
    stdout,        \* what print() wrote, one entry per call
    exit_code,     \* << >> while running, <<status>> once exited
    run,           \* 1 for a run on the original file, 2 for a run on the
                   \* output of run 1
    first_stdout,  \* standard output of run 1, None during run 1
    text,          \* helper checks: the text a helper is applied to
    result         \* helper checks: what the helper returned

vars == <<pc, argv, file, arguments, exception, data, tree, private_tree, index, last_rule,
          received, stdout, exit_code, run, first_stdout, text, result>>

\* The characters of a node type name, as print() writes them.
TypeName(type) ==
    CASE type = "parameter_list" ->
            <<"p", "a", "r", "a", "m", "e", "t", "e", "r", "_", "l", "i", "s", "t">>
      [] type = "identifier" ->
            <<"i", "d", "e", "n", "t", "i", "f", "i", "e", "r">>
      [] type = "function_block" ->
            <<"f", "u", "n", "c", "t", "i", "o", "n", "_", "b", "l", "o", "c", "k">>
      [] type = "variable_definition" ->
            <<"v", "a", "r", "i", "a", "b", "l", "e", "_", "d", "e", "f", "i", "n",
              "i", "t", "i", "o", "n">>
      [] type = "binary_expression" ->
            <<"b", "i", "n", "a", "r", "y", "_", "e", "x", "p", "r", "e", "s", "s",
              "i", "o", "n">>
      [] OTHER -> <<type>>

\* The bytes on standard output: print() ends every call with a newline.
RECURSIVE StdoutText(_)
StdoutText(lines) ==
    IF lines = << >> THEN << >>
    ELSE Head(lines) \o <<NL>> \o StdoutText(Tail(lines))

ErrorQuery == <<[type |-> "ERROR", tag |-> "error"]>>

\* The line print_unparsable_sections prints for one error capture.
ErrorLine(d, t, newline_offsets, error) ==
    LET node == t.nodes[error.node]
        bad_data == PySlice(d, Resolve(newline_offsets, node.sp),
                            Resolve(newline_offsets, node.ep))
    IN <<"E", "r", "r", "o", "r", ":", SP>> \o Str(node.sp[1]) \o <<":">>
       \o Str(node.sp[2]) \o <<SP, "-", SP, "[">> \o bad_data \o <<"]">>

\* print_unparsable_sections: [out, err], stopping at the first exception.
RECURSIVE print_unparsable_sections(_, _, _, _)
print_unparsable_sections(d, t, errors, k) ==
    IF k > Len(errors) THEN [out |-> << >>, err |-> None]
    ELSE IF ~HasLines(t.nodes[errors[k].node], get_all_newline_offsets(d))
    THEN [out |-> << >>, err |-> IndexError]
    ELSE LET rest == print_unparsable_sections(d, t, errors, k + 1)
         IN [out |-> <<ErrorLine(d, t, get_all_newline_offsets(d), errors[k])>>
                     \o rest.out,
             err |-> rest.err]

\* main's test for a failed parse, letting a single error node through
HasSeveralParseErrors(captures) == Len(captures) > 1

\* main's test for a failed parse
HasParseError(captures) == Len(captures) > 0

\* str.lower() on the option values used here
Lower(word) ==
    CASE word = "No" -> "no" [] word = "True" -> "true" [] OTHER -> word

\* str_to_bool: [err, value]; a bool passes through, a word is looked up.
ArgumentTypeError == "ArgumentTypeError"
str_to_bool(value) ==
    IF value.type = "bool" THEN [err |-> None, value |-> value.val]
    ELSE IF Lower(value.val) \in {"yes", "true", "y", "t", "1"}
    THEN [err |-> None, value |-> TRUE]
    ELSE IF Lower(value.val) \in {"no", "false", "n", "f", "0"}
    THEN [err |-> None, value |-> FALSE]
    ELSE [err |-> ArgumentTypeError, value |-> None]

\* A command line: the value given with -t and the value given with -x,
\* << >> for an option that is not given.
CommandLines ==
    {[t |-> << >>, x |-> << >>],
     [t |-> << >>, x |-> <<<<"8", "0">>>>],
     [t |-> <<"No">>, x |-> <<<<"a", "b", "c">>>>],
     [t |-> <<"maybe">>, x |-> << >>]}

\* parse_arguments: [err, arguments].  use_tabs is True by default and goes
\* through str_to_bool; maximum_line_length is the integer 80 by default and
\* the string given with -x otherwise.
DefaultLineLength == 80
UseTabs(line) ==
    str_to_bool(IF line.t = << >> THEN [type |-> "bool", val |-> TRUE]
                ELSE [type |-> "str", val |-> line.t[1]])
parse_arguments(line) ==
    [err |-> UseTabs(line).err,
     arguments |->
        [use_tabs |-> UseTabs(line).value,
         maximum_line_length |->
            IF line.x = << >> THEN [type |-> "int", val |-> DefaultLineLength]
            ELSE [type |-> "str", val |-> line.x[1]]]]

\* The files the runs are checked on: every concatenation of at most
\* MaxFragments of these pieces of source text.
MaxFragments == 3
Fragments ==
    {<<"a">>, <<";">>, <<"{">>, <<"}">>, <<"{", "a", ";", "}">>,
     <<"|", "a", "|", SP>>, <<"v", "a", "r", SP, "a">>, <<SP, NL>>}

RECURSIVE Concatenations(_)
Concatenations(n) ==
    IF n = 0 THEN {<< >>}
    ELSE LET shorter == Concatenations(n - 1)
         IN shorter \cup {s \o f : s \in shorter, f \in Fragments}

Inputs == Concatenations(MaxFragments)

Init ==
    /\ pc = "args"
    /\ argv \in CommandLines
    /\ file \in Inputs
    /\ arguments = None
    /\ exception = None
    /\ data = << >>
    /\ tree = None
    /\ private_tree = None
    /\ index = 1
    /\ last_rule = None
    /\ received = << >>
    /\ stdout = << >>
    /\ exit_code = << >>
    /\ run = 1
    /\ first_stdout = None
    /\ text = << >>
    /\ result = None

\* main, line 65: the command line is parsed; an exception in str_to_bool
\* ends the process with a traceback and exit status 1.
ParseArguments ==
    /\ pc = "args"
    /\ IF parse_arguments(argv).err # None
       THEN /\ pc' = "usage"
            /\ exception' = parse_arguments(argv).err
            /\ exit_code' = <<1>>
            /\ UNCHANGED arguments
       ELSE /\ pc' = "start"
            /\ arguments' = parse_arguments(argv).arguments
            /\ UNCHANGED <<exception, exit_code>>
    /\ UNCHANGED <<argv, file, data, tree, private_tree, index, last_rule,
                   received, stdout, run, first_stdout, text, result>>

\* main, lines 68-78: read, normalize, parse
ReadFile ==
    /\ pc = "start"
    /\ data' = naive_normalize(file)
    /\ tree' = get_tree(naive_normalize(file), None)
    /\ pc' = "check"
    /\ UNCHANGED <<argv, file, arguments, exception, private_tree, index, last_rule,
                   received, stdout, exit_code, run, first_stdout, text, result>>

\* main, lines 81-88: the tree has an error node
ParseFailure ==
    /\ pc = "check"
    /\ HasParseError(QueryCaptures(tree, ErrorQuery, 1))
    /\ LET r == print_unparsable_sections(data, tree,
                                          QueryCaptures(tree, ErrorQuery, 1), 1)
       IN /\ stdout' = stdout \o r.out
          /\ pc' = IF r.err = None THEN "rejected" ELSE "crashed"
          /\ exception' = r.err
    /\ exit_code' = <<1>>
    /\ UNCHANGED <<argv, file, arguments, data, tree, private_tree, index,
                   last_rule, received, run, first_stdout, text, result>>

ParseOk ==
    /\ pc = "check"
    /\ ~HasParseError(QueryCaptures(tree, ErrorQuery, 1))
    /\ pc' = "pre"
    /\ index' = 1
    /\ UNCHANGED <<argv, file, arguments, exception, data, tree, private_tree,
                   last_rule, received, stdout, exit_code, run, first_stdout,
                   text, result>>

\* One iteration of one of main's three for loops, r being what the rule's
\* format call returned; an exception in the rule ends the process with a
\* traceback and exit status 1.
RunRule(group, rules, after, r) ==
    /\ stdout' = stdout \o [k \in 1..Len(r.out) |-> TypeName(r.out[k])]
    /\ IF r.err # None
       THEN /\ pc' = "crashed"
            /\ exit_code' = <<1>>
            /\ UNCHANGED <<data, tree, private_tree, index, last_rule, received>>
       ELSE /\ data' = r.data
            /\ tree' = r.tree
            /\ private_tree' = r.private_tree
            /\ last_rule' = rules[index]
            /\ received' = data
            /\ IF index < Len(rules)
               THEN index' = index + 1 /\ pc' = group
               ELSE index' = 1 /\ pc' = after
            /\ UNCHANGED exit_code
    /\ exception' = r.err
    /\ UNCHANGED <<argv, file, arguments, run, first_stdout, text, result>>

\* main, lines 90-92
RunPreFormat ==
    /\ pc = "pre"
    /\ RunRule("pre", pre_format, "inline",
               format(pre_format[index], arguments, data, tree))

\* main, lines 94-96
RunInlineFormat ==
    /\ pc = "inline"
    /\ RunRule("inline", inline_format, "post",
               format(inline_format[index], arguments, data, tree))

\* main, lines 98-100
RunPostFormat ==
    /\ pc = "post"
    /\ RunRule("post", post_format, "print",
               format(post_format[index], arguments, data, tree))

\* main, lines 102-106
PrintResult ==
    /\ pc = "print"
    /\ stdout' = Append(stdout, data)
    /\ exit_code' = <<0>>
    /\ pc' = "done"
    /\ UNCHANGED <<argv, file, arguments, exception, data, tree, private_tree, index,
                   last_rule, received, run, first_stdout, text, result>>

\* The formatter is started again on what the first run wrote.
Reformat ==
    /\ pc = "done"
    /\ run = 1
    /\ file' = StdoutText(stdout)
    /\ first_stdout' = StdoutText(stdout)
    /\ run' = 2
    /\ pc' = "start"
    /\ data' = << >>
    /\ tree' = None
    /\ private_tree' = None
    /\ index' = 1
    /\ last_rule' = None
    /\ received' = << >>
    /\ stdout' = << >>
    /\ exit_code' = << >>
    /\ UNCHANGED <<argv, arguments, exception, text, result>>

Next ==
    \/ ParseArguments
    \/ ReadFile
    \/ ParseFailure
    \/ ParseOk
    \/ RunPreFormat
    \/ RunInlineFormat
    \/ RunPostFormat
    \/ PrintResult
    \/ Reformat

Spec == Init /\ [][Next]_vars

(***************************************************************************)
(* Properties of a run                                                     *)
(***************************************************************************)

Range(seq) == {seq[k] : k \in 1..Len(seq)}

\* One-pass application of a rule: every target range and replacement is
\* computed against the buffer the rule received, and the ranges are spliced
\* left to right; a range inside a range already replaced is covered by it.
RuleEdit(rule, args, d, t, newline_offsets, match) ==
    CASE rule = "FormatParameterLists" ->
            FormatParameterListsEdit(d, t, newline_offsets, match)
      [] rule = "FormatReturnStatement" ->
            FormatReturnStatementEdit(d, t, newline_offsets, match)
      [] rule = "AddNewlinesInFunctions" ->
            AddNewlinesInFunctionsEdit(args, d, t, newline_offsets, match)

RECURSIVE SpliceAll(_, _, _, _)
SpliceAll(orig, edits, k, pos) ==
    IF k < 1 THEN PyFrom(orig, pos)
    ELSE IF edits[k].s < pos THEN SpliceAll(orig, edits, k - 1, pos)
    ELSE PySlice(orig, pos, edits[k].s) \o edits[k].text
         \o SpliceAll(orig, edits, k - 1, edits[k].e)

OnePass(rule, args, d) ==
    LET t == Parse(d)
        q == get_query_result_and_newline_data(t, RuleQuery(rule), d)
        edits == [k \in 1..Len(q.captures) |->
                     RuleEdit(rule, args, d, t, q.newline_offsets, q.captures[k])]
    IN SpliceAll(d, edits, Len(edits), 0)

PerMatchRules ==
    {"FormatParameterLists", "FormatReturnStatement", "AddNewlinesInFunctions"}

\* C1: offset-ordering law: when a rule that edits per match has run, the
\* buffer it returns (edits applied one match at a time, in descending
\* start order, with the offsets taken before the first edit) equals the
\* buffer got by computing all ranges and replacements against the buffer
\* the rule received and splicing them in one pass.
C1_OffsetOrderingLaw ==
    last_rule \in PerMatchRules => data = OnePass(last_rule, arguments, received)

InitialTree == Parse(naive_normalize(file))
ErrorsOf(t) == {k \in 1..Len(t.nodes) : t.nodes[k].type = "ERROR"}
InitialErrors == ErrorsOf(InitialTree)

\* The report of one error node: line:column and the bytes of the node.
ReportOf(t, k) ==
    <<"E", "r", "r", "o", "r", ":", SP>> \o Str(t.nodes[k].sp[1]) \o <<":">>
    \o Str(t.nodes[k].sp[2]) \o <<SP, "-", SP, "[">>
    \o PySlice(t.text, t.nodes[k].sb, t.nodes[k].eb) \o <<"]">>
Report(k) == ReportOf(InitialTree, k)

\* C5: parse failure: if the initial parse (made once the command line is
\* accepted) has an error node, no rule runs,
\* the run ends with exit code 1, standard output holds exactly one report
\* line:column - [excerpt] per error node, and the formatted text is never
\* printed.
C5_ParseFailure ==
    (pc \notin {"args", "usage"} /\ InitialErrors # {}) =>
        /\ last_rule = None
        /\ pc \in {"start", "check", "rejected"}
        /\ exit_code \in {<< >>, <<1>>}
        /\ pc = "rejected" =>
              /\ exit_code = <<1>>
              /\ Len(stdout) = Cardinality(InitialErrors)
              /\ \A k \in InitialErrors : Report(k) \in Range(stdout)

\* C5 witness: a rejected run that reported two error nodes, one of them
\* not on the first line.
C5_Witness ==
    /\ pc = "rejected"
    /\ Len(stdout) >= 2
    /\ \E k \in InitialErrors : InitialTree.nodes[k].sp[1] > 0

\* C6: a run that got past argument parsing ends either rejected on parse
\* failure before the first rule or after the last rule with exit code 0; it
\* never stops part-way.
C6_CompleteOrRejected ==
    (exit_code # << >> /\ pc # "usage") =>
        \/ pc = "rejected" /\ last_rule = None /\ exit_code = <<1>>
        \/ pc = "done" /\ last_rule = "EndOfFileNewLine" /\ exit_code = <<0>>

\* C7: on a successful run standard output holds the final buffer and
\* nothing else.
C7_OnlyTheBuffer ==
    pc = "done" => stdout = <<data>>

\* C8: the text written to standard output by a successful run ends with
\* exactly one newline.
EndsWithOneNewline(t) ==
    /\ Len(t) >= 1
    /\ t[Len(t)] = NL
    /\ Len(t) >= 2 => t[Len(t) - 1] # NL
C8_EOFInvariant ==
    pc = "done" => EndsWithOneNewline(StdoutText(stdout))

\* C9: after StripTrailingWhitespace no line of the buffer ends with a
\* space or tab, and no line of the final output does.
NoTrailingWhitespace(t) ==
    /\ \A i \in 2..Len(t) : t[i] = NL => t[i - 1] \notin {SP, TAB}
    /\ Len(t) >= 1 => t[Len(t)] \notin {SP, TAB}
C9_NoTrailingWhitespace ==
    /\ last_rule = "StripTrailingWhitespace" => NoTrailingWhitespace(data)
    /\ pc = "done" => NoTrailingWhitespace(StdoutText(stdout))

\* C10: idempotence: a run on the output of a previous run writes exactly
\* that output again.
C10_Idempotence ==
    (pc = "done" /\ run = 2) => StdoutText(stdout) = first_stdout

\* The characters of t that are not white space, in order.
RECURSIVE NonWhitespace(_)
NonWhitespace(t) ==
    IF t = << >> THEN << >>
    ELSE (IF IsSpaceChar(Head(t)) THEN << >> ELSE <<Head(t)>>)
         \o NonWhitespace(Tail(t))

\* out is before with nothing changed but ";" characters directly before a
\* "}" taken away.
RECURSIVE OnlyReturnSemicolonsRemoved(_, _)
OnlyReturnSemicolonsRemoved(before, out) ==
    IF before = << >> THEN out = << >>
    ELSE IF out # << >> /\ Head(before) = Head(out)
    THEN OnlyReturnSemicolonsRemoved(Tail(before), Tail(out))
    ELSE /\ Len(before) >= 2
         /\ before[1] = ";"
         /\ before[2] = "}"
         /\ OnlyReturnSemicolonsRemoved(Tail(before), out)

\* C11: structure preservation: the non-whitespace characters of the buffer
\* after a run are those of the input file, in order, except for semicolons
\* removed directly after the last statement of a function block.
C11_StructurePreserved ==
    pc = "done" =>
        OnlyReturnSemicolonsRemoved(NonWhitespace(file), NonWhitespace(data))

\* A boolean word for -t, and the digits of an integer for -x.
BooleanWords == {"yes", "true", "y", "t", "1", "no", "false", "n", "f", "0"}
Digits == {"0", "1", "2", "3", "4", "5", "6", "7", "8", "9"}
ValidUseTabs(line) == line.t = << >> \/ Lower(line.t[1]) \in BooleanWords
ValidLineLength(line) ==
    \/ line.x = << >>
    \/ line.x[1] # << >> /\ \A k \in 1..Len(line.x[1]) : line.x[1][k] \in Digits

\* C12: configuration errors: a command line with an invalid use_tabs or
\* maximum_line_length value gets no further than parse_arguments, and a
\* command line that parse_arguments accepted never makes a rule fail on a
\* configuration value.
C12_ConfigurationErrors ==
    /\ ~(ValidUseTabs(argv) /\ ValidLineLength(argv)) => pc \in {"args", "usage"}
    /\ pc \notin {"args", "usage"} => exception # TypeError

\* The rules of a run in the order main's three loops go through them, and
\* the number of them that have returned where main is.
Pipeline == pre_format \o inline_format \o post_format
Returned ==
    CASE pc = "pre" -> index - 1
      [] pc = "inline" -> Len(pre_format) + index - 1
      [] pc = "post" -> Len(pre_format) + Len(inline_format) + index - 1
      [] pc \in {"print", "done"} -> Len(Pipeline)
      [] OTHER -> 0

\* The rule that ran last is the one the pipeline order gives, and a run is
\* done only after EndOfFileNewLine.
InPipelineOrder ==
    /\ pc \in {"pre", "inline", "post", "print", "done"} =>
          last_rule = (IF Returned = 0 THEN None ELSE Pipeline[Returned])
    /\ pc = "done" => last_rule = "EndOfFileNewLine"

\* One step of a run that parsed: the next rule of the pipeline is called
\* with the buffer and tree main holds, it returns, and main holds what it
\* returned.
NextRuleReturns ==
    pc \in {"pre", "inline", "post"} =>
        /\ pc' \in {"pre", "inline", "post", "print"}
        /\ Returned' = Returned + 1
        /\ last_rule' = Pipeline[Returned + 1]
        /\ received' = data
        /\ data' = format(Pipeline[Returned + 1], arguments, data, tree).data
        /\ tree' = format(Pipeline[Returned + 1], arguments, data, tree).tree

\* C13: pipeline order: on a run that parses every rule runs exactly once,
\* pre_format, then inline_format, then post_format in list order with
\* EndOfFileNewLine last, each on the buffer and tree the rule before it
\* returned.
C13_PipelineOrder == [][NextRuleReturns /\ InPipelineOrder']_vars

(***************************************************************************)
(* The helpers on their own: a helper is called on a text and returns      *)
(***************************************************************************)

\* Every text of at most MaxTextLen characters over HelperAlphabet.
MaxTextLen == 5
HelperAlphabet == {"a", "+", NL}

RECURSIVE Texts(_)
Texts(n) ==
    IF n = 0 THEN {<< >>}
    ELSE LET shorter == Texts(n - 1)
         IN shorter \cup {Append(t, c) : t \in shorter, c \in HelperAlphabet}

HelperQueries == {BinaryQuery, FunctionBlockQuery, JoinQuery}

HelperInit ==
    /\ pc = "call"
    /\ text \in Texts(MaxTextLen)
    /\ result = None
    /\ argv = None
    /\ file = << >>
    /\ arguments = None
    /\ exception = None
    /\ data = << >>
    /\ tree = Parse(text)
    /\ private_tree = None
    /\ index = 1
    /\ last_rule = None
    /\ received = << >>
    /\ stdout = << >>
    /\ exit_code = << >>
    /\ run = 1
    /\ first_stdout = None

\* Helpers.get_all_newline_offsets(text)
CallNewlineOffsets ==
    /\ pc = "call"
    /\ result' = [helper |-> "get_all_newline_offsets",
                  newline_offsets |-> get_all_newline_offsets(text)]
    /\ pc' = "returned"
    /\ UNCHANGED <<argv, file, arguments, exception, data, tree, private_tree, index,
                   last_rule, received, stdout, exit_code, run, first_stdout,
                   text>>

\* Helpers.get_query_result_and_newline_data(tree, query, text), tree being
\* the parse of the text
CallQuery ==
    /\ pc = "call"
    /\ \E query \in HelperQueries :
          result' = [helper |-> "get_query_result_and_newline_data",
                     captures |->
                         get_query_result_and_newline_data(
                             tree, query, text).captures]
    /\ pc' = "returned"
    /\ UNCHANGED <<argv, file, arguments, exception, data, tree, private_tree, index,
                   last_rule, received, stdout, exit_code, run, first_stdout,
                   text>>

\* Helpers.replace_range(text, start, end, replacement) for
\* 0 <= start <= end <= len(text)
Replacements == {<< >>, <<"a">>, <<"+", NL>>}
CallReplaceRange ==
    /\ pc = "call"
    /\ \E start \in 0..Len(text), replacement \in Replacements :
          \E end \in start..Len(text) :
              /\ result' = [helper |-> "replace_range",
                            start |-> start, end |-> end,
                            replacement |-> replacement,
                            err |-> replace_range(text, start, end,
                                                  replacement).err,
                            value |-> replace_range(text, start, end,
                                                    replacement).value]
              /\ stdout' = stdout \o replace_range(text, start, end,
                                                   replacement).out
    /\ pc' = "returned"
    /\ UNCHANGED <<argv, file, arguments, exception, data, tree, private_tree, index,
                   last_rule, received, exit_code, run, first_stdout, text>>

HelperNext == CallNewlineOffsets \/ CallQuery \/ CallReplaceRange

SpecHelpers == HelperInit /\ [][HelperNext]_vars

\* C2: the captures come back ordered by descending start position and,
\* among captures with equal start, by descending end position.
C2_DescendingCaptures ==
    (pc = "returned" /\ result.helper = "get_query_result_and_newline_data") =>
        \A i, j \in 1..Len(result.captures) :
            i < j =>
                LET a == tree.nodes[result.captures[i].node]
                    b == tree.nodes[result.captures[j].node]
                IN \/ PointLess(b.sp, a.sp)
                   \/ a.sp = b.sp /\ ~PointLess(a.ep, b.ep)

\* Offset of the k-th newline of t (k >= 1), t holding at least k newlines.
RECURSIVE NthNewline(_, _, _)
NthNewline(t, k, from) ==
    IF t[from + 1] = NL
    THEN IF k = 1 THEN from ELSE NthNewline(t, k - 1, from + 1)
    ELSE NthNewline(t, k, from + 1)
NewlineCount(t) == Cardinality({i \in 1..Len(t) : t[i] = NL})

\* C3: entry 0 of the index is 0 and, for every k >= 1 up to the number of
\* newlines in the text, entry k is the offset of the k-th newline plus one.
C3_PositionIndex ==
    (pc = "returned" /\ result.helper = "get_all_newline_offsets") =>
        /\ result.newline_offsets[1] = 0
        /\ \A k \in 1..NewlineCount(text) :
              /\ HasLine(result.newline_offsets, k)
              /\ result.newline_offsets[k + 1] = NthNewline(text, k, 0) + 1

\* C14: for every text and every 0 <= start <= end <= len(text), the end of
\* the text and the empty text included, replace_range returns
\* text[:start] + replacement + text[end:] and raises nothing.
C14_ReplaceRange ==
    (pc = "returned" /\ result.helper = "replace_range") =>
        /\ result.err = None
        /\ result.value = <<SubSeq(text, 1, result.start) \o result.replacement
                                \o SubSeq(text, result.end + 1, Len(text))>>


(***************************************************************************)
(* The rules on their own: FormatRule.format of one rule is called on a    *)
(* buffer and its tree, and once more on what it returned                  *)
(***************************************************************************)

\* Every buffer of at most MaxPieces pieces that parses.
MaxPieces == 3
Pieces ==
    {<<"a">>, <<"+">>, <<";">>, <<"{">>, <<"}">>, <<SP>>, <<NL>>,
     <<"+", "a">>, <<"{", "a", ";">>, <<SP, SP>>,
     <<"v", "a", "r", SP, "a", ";">>, <<"{", "a", ";", "a", "}">>,
     <<"{", "|", "a">>, <<",", "a">>, <<",", "a", "|", "}">>}

RECURSIVE Buffers(_)
Buffers(n) ==
    IF n = 0 THEN {<< >>}
    ELSE LET shorter == Buffers(n - 1)
         IN shorter \cup {s \o p : s \in shorter, p \in Pieces}

RuleInit ==
    /\ pc = "call"
    /\ argv \in {line \in CommandLines :
                    line.t = << >> /\ parse_arguments(line).err = None}
    /\ arguments = parse_arguments(argv).arguments
    /\ data \in Buffers(MaxPieces)
    /\ tree = get_tree(data, None)
    /\ ErrorsOf(tree) = {}
    /\ private_tree = None
    /\ file = << >>
    /\ exception = None
    /\ index = 1
    /\ last_rule = None
    /\ received = << >>
    /\ stdout = << >>
    /\ exit_code = << >>
    /\ run = 1
    /\ first_stdout = None
    /\ text = << >>
    /\ result = None

\* rule.format(arguments, data, tree), r being what the call returns.
\* last_rule is the rule called, index counts the calls.
CallRule(rule, r) ==
    /\ pc = "returned" => (index = 2 /\ last_rule = rule)
    /\ last_rule' = rule
    /\ index' = index + 1
    /\ received' = data
    /\ exception' = r.err
    /\ stdout' = stdout \o [k \in 1..Len(r.out) |-> TypeName(r.out[k])]
    /\ IF r.err # None
       THEN pc' = "crashed" /\ UNCHANGED <<data, tree, private_tree>>
       ELSE /\ pc' = "returned"
            /\ data' = r.data
            /\ tree' = r.tree
            /\ private_tree' = r.private_tree
    /\ UNCHANGED <<argv, file, arguments, exit_code, run, first_stdout, text,
                   result>>

CallBracketSpacing ==
    /\ pc \in {"call", "returned"}
    /\ CallRule("BracketSpacing",
                format("BracketSpacing", arguments, data, tree))
CallBinaryOperatorSpacing ==
    /\ pc \in {"call", "returned"}
    /\ CallRule("BinaryOperatorSpacing",
                format("BinaryOperatorSpacing", arguments, data, tree))
CallFormatReturnStatement ==
    /\ pc \in {"call", "returned"}
    /\ CallRule("FormatReturnStatement",
                format("FormatReturnStatement", arguments, data, tree))
CallAddNewlinesInFunctions ==
    /\ pc \in {"call", "returned"}
    /\ CallRule("AddNewlinesInFunctions",
                format("AddNewlinesInFunctions", arguments, data, tree))
CallEndOfFileNewLine ==
    /\ pc \in {"call", "returned"}
    /\ CallRule("EndOfFileNewLine",
                format("EndOfFileNewLine", arguments, data, tree))

CallJoinElementsOntoSingleLines ==
    /\ pc \in {"call", "returned"}
    /\ CallRule("JoinElementsOntoSingleLines",
                format("JoinElementsOntoSingleLines", arguments, data, tree))

CallAddSpacesAfterCommas ==
    /\ pc \in {"call", "returned"}
    /\ CallRule("AddSpacesAfterCommas",
                format("AddSpacesAfterCommas", arguments, data, tree))

RuleNext ==
    \/ CallBracketSpacing
    \/ CallBinaryOperatorSpacing
    \/ CallFormatReturnStatement
    \/ CallAddNewlinesInFunctions
    \/ CallEndOfFileNewLine

SpecRules == RuleInit /\ [][RuleNext]_vars

\* The same for the two rules that join lines and space commas.
JoinAndCommaNext ==
    CallJoinElementsOntoSingleLines \/ CallAddSpacesAfterCommas

SpecJoinAndComma == RuleInit /\ [][JoinAndCommaNext]_vars

\* Character i (1-based) of t is followed, or preceded, by exactly one space.
OneSpaceAfter(t, i) ==
    /\ i + 1 <= Len(t) /\ t[i + 1] = SP
    /\ i + 2 <= Len(t) => t[i + 2] # SP
OneSpaceBefore(t, i) ==
    /\ i - 1 >= 1 /\ t[i - 1] = SP
    /\ i - 2 >= 1 => t[i - 2] # SP

\* The bracket spacing of a buffer (every bracket character of the language
\* modelled here is a token).
BracketsSpaced(t) ==
    \A i \in 1..Len(t) :
        /\ t[i] \in {"(", "["} => ~(i + 1 <= Len(t) /\ t[i + 1] = SP)
        /\ t[i] \in {")", "]"} => ~(i - 1 >= 1 /\ t[i - 1] = SP)
        /\ t[i] = "{" => OneSpaceAfter(t, i)
        /\ t[i] = "}" => OneSpaceBefore(t, i)

\* C15: after BracketSpacing has run, no ( or [ is followed by a space, no )
\* or ] is preceded by one, every { is followed by exactly one space and
\* every } is preceded by exactly one.
C15_BracketSpacing ==
    last_rule = "BracketSpacing" => (pc = "returned" /\ BracketsSpaced(data))

\* The operator nodes of a tree: the second child of a binary expression.
OperatorNodes(t) ==
    {k \in 1..Len(t.nodes) :
        /\ t.nodes[k].type = "+"
        /\ t.nodes[k].parent # 0
        /\ t.nodes[t.nodes[k].parent].type = "binary_expression"}

\* C16: after BinaryOperatorSpacing has run, the operator of every binary
\* expression, nested ones included, has exactly one space directly before
\* it and exactly one directly after it.
OperatorsSpaced(t) ==
    \A k \in OperatorNodes(t) :
        /\ OneSpaceBefore(t.text, t.nodes[k].sb + 1)
        /\ OneSpaceAfter(t.text, t.nodes[k].eb)
NoDoubleSpaceAt(t, k) ==
    /\ ~MatchAt(t.text, t.nodes[k].sb - 2, <<SP, SP>>)
    /\ ~MatchAt(t.text, t.nodes[k].eb, <<SP, SP>>)
NoDoubleSpaces(t) == \A k \in OperatorNodes(t) : NoDoubleSpaceAt(t, k)

DigitValue(c) == CHOOSE d \in 0..9 : Digit(d) = c
RECURSIVE IntOf(_)
IntOf(word) ==
    IF word = << >> THEN 0
    ELSE 10 * IntOf(SubSeq(word, 1, Len(word) - 1)) + DigitValue(word[Len(word)])

\* The maximum line length the command line configures.
ConfiguredLineLength(line) ==
    IF line.x = << >> THEN DefaultLineLength ELSE IntOf(line.x[1])

\* The function blocks of a tree; a buffer that is one function block.
FunctionBlocks(t) ==
    {k \in 1..Len(t.nodes) : t.nodes[k].type = "function_block"}
IsOneBlock(t) ==
    /\ Cardinality(FunctionBlocks(t)) = 1
    /\ \A k \in FunctionBlocks(t) :
          t.nodes[k].sb = 0 /\ t.nodes[k].eb = Len(t.text)

\* The statement children and the var lines of block k.
StatementChildren(t, k) ==
    {c \in 1..Len(t.nodes) :
        /\ t.nodes[c].parent = k
        /\ t.nodes[c].type \notin {";", "parameter_list", "{", "}"}
        /\ ~StartsWithVar(t, c)}
VarChildren(t, k) ==
    {c \in 1..Len(t.nodes) : t.nodes[c].parent = k /\ StartsWithVar(t, c)}
CollapseExpected(t, line) ==
    \A k \in FunctionBlocks(t) :
        /\ Cardinality(StatementChildren(t, k)) <= 3
        /\ Cardinality(VarChildren(t, k)) = 1
        /\ t.nodes[k].eb - t.nodes[k].sb <= ConfiguredLineLength(line)

\* What the rule is to make of a buffer that is one function block.
BlockExpected(t, line) ==
    IF CollapseExpected(t, line) THEN ReSub(<<NL>>, << >>, t.text)
    ELSE ExpandText(t.text)

\* C17: AddNewlinesInFunctions puts a function block onto one line exactly
\* when it has at most 3 statement children, exactly one var line and a
\* length of at most the configured maximum_line_length (the default or the
\* value given with -x), and takes the expand branch in every other case.
C17_CollapseDecision ==
    (last_rule = "AddNewlinesInFunctions" /\ index = 2) =>
        /\ pc = "returned"
        /\ IsOneBlock(get_tree(received, None)) =>
              data = BlockExpected(get_tree(received, None), argv)

\* The layout of an expanded block text.
NewlineAfterEverySemicolon(t) ==
    \A i \in 1..Len(t) : t[i] = ";" => (i < Len(t) /\ t[i + 1] = NL)
NewlineBeforeVar(t) ==
    \A i \in 1..Len(t) :
        (t[i] = "|" /\ MatchAt(t, i, <<SP, "v", "a", "r">>)) => FALSE
OneNewlineBeforeClosingBrace(t) ==
    /\ Len(t) >= 3
    /\ t[Len(t)] = "}"
    /\ t[Len(t) - 1] = NL
    /\ t[Len(t) - 2] # NL
NoDoubledNewline(t) ==
    \A i \in 1..Len(t) : ~MatchAt(t, i - 1, <<NL, NL>>)

\* C18: the text of a block that AddNewlinesInFunctions does not collapse
\* has a newline directly after every semicolon, a newline between the
\* parameter list and a following var line, exactly one newline directly
\* before the closing brace and no two consecutive newlines.
C18_FunctionExpansion ==
    (/\ last_rule = "AddNewlinesInFunctions" /\ index = 2 /\ pc = "returned"
     /\ IsOneBlock(get_tree(received, None))
     /\ ~CollapseExpected(get_tree(received, None), argv)) =>
        /\ NewlineAfterEverySemicolon(data)
        /\ NewlineBeforeVar(data)
        /\ OneNewlineBeforeClosingBrace(data)
        /\ NoDoubledNewline(data)

\* C19: whatever number of newlines the buffer ends with, the buffer
\* EndOfFileNewLine returns ends with exactly one newline, and the rule
\* applied to its own result returns that result.
C19_EndOfFileNewLine ==
    last_rule = "EndOfFileNewLine" =>
        /\ pc = "returned"
        /\ EndsWithOneNewline(data)
        /\ index = 3 => data = received

\* The last child of block b that is neither a closing brace nor a
\* semicolon (0 when there is none), and the 1-based positions of the
\* semicolons that directly follow the last statement of a function block.
LastStatement(t, b) ==
    LET kids == {c \in 1..Len(t.nodes) :
                    /\ t.nodes[c].parent = b
                    /\ t.nodes[c].type \notin {"}", ";"}}
    IN IF kids = {} THEN 0 ELSE CHOOSE c \in kids : \A d \in kids : d <= c
ReturnSemicolons(t) ==
    {i \in 1..Len(t.text) :
        /\ t.text[i] = ";"
        /\ \E b \in FunctionBlocks(t) :
              /\ LastStatement(t, b) # 0
              /\ t.nodes[LastStatement(t, b)].eb + 1 = i}

\* The text without the characters at the positions in gone.
RECURSIVE Without(_, _, _)
Without(t, gone, i) ==
    IF i > Len(t) THEN << >>
    ELSE (IF i \in gone THEN << >> ELSE <<t[i]>>) \o Without(t, gone, i + 1)

\* C20: FormatReturnStatement removes, for each function block, at most the
\* semicolon that directly follows the block's last statement and leaves
\* every other character of the buffer as it is.
C20_ReturnStatementFrame ==
    (last_rule = "FormatReturnStatement" /\ index = 2) =>
        /\ pc = "returned"
        /\ \E gone \in SUBSET ReturnSemicolons(get_tree(received, None)) :
              data = Without(received, gone, 1)

\* No delimiter of the buffer has a newline on a side where the rule's query
\* allows none.
NoNewlineRight == {"[", ".", "|", "{", "("}
NoNewlineLeft == {"[", "]", ".", "|", "}", ")"}
JoinedOntoSingleLines(t) ==
    \A i \in 1..Len(t) :
        /\ t[i] \in NoNewlineRight => ~(i < Len(t) /\ t[i + 1] = NL)
        /\ t[i] \in NoNewlineLeft => ~(i > 1 /\ t[i - 1] = NL)

\* C21: after JoinElementsOntoSingleLines has run, no [ . | { ( is directly
\* followed by a newline and no [ ] . | } ) is directly preceded by one, the
\* last character of the buffer included.
C21_JoinedOntoSingleLines ==
    last_rule = "JoinElementsOntoSingleLines" =>
        (pc = "returned" /\ JoinedOntoSingleLines(data))

\* Every comma of the buffer is followed by exactly one space and not
\* preceded by one.
CommasSpaced(t) ==
    \A i \in 1..Len(t) :
        t[i] = "," => (OneSpaceAfter(t, i) /\ ~(i > 1 /\ t[i - 1] = SP))

\* The positions of the spaces that are next to a comma, alone or in a run.
SpacesNextToComma(t) ==
    {i \in 1..Len(t) :
        /\ t[i] = SP
        /\ \E j \in 1..Len(t) :
              /\ t[j] = ","
              /\ \A k \in Min(i, j)..Max(i, j) : k # j => t[k] = SP}

\* C22: after AddSpacesAfterCommas has run, every comma is followed by
\* exactly one space and not preceded by a space, and the buffer differs
\* from the one the rule was given only in spaces next to a comma.
C22_SpacesAfterCommas ==
    (last_rule = "AddSpacesAfterCommas" /\ index = 2) =>
        /\ pc = "returned"
        /\ CommasSpaced(data)
        /\ Without(data, SpacesNextToComma(data), 1)
              = Without(received, SpacesNextToComma(received), 1)

\* The significant nodes of a tree.
SignificantNodes(t) ==
    {k \in 1..Len(t.nodes) : t.nodes[k].type \in nodes_to_investigate}

\* a is b with characters left out (every character of a is kept in b, in
\* order).
RECURSIVE IsSubsequence(_, _)
IsSubsequence(a, b) ==
    IF a = << >> THEN TRUE
    ELSE IF b = << >> THEN FALSE
    ELSE IF Head(a) = Head(b) THEN IsSubsequence(Tail(a), Tail(b))
    ELSE IsSubsequence(a, Tail(b))

\* C23: IndentFile inserts exactly one newline for each significant node of
\* the tree and changes nothing else: no character of the buffer it was
\* given is overwritten or dropped, and what was added is one newline per
\* significant node.
C23_IndentFileInsertsOnly ==
    /\ ~(pc = "crashed" /\ last_rule = "AddNewlinesInFunctions")
    /\ (last_rule = "IndentFile" /\ pc = "post") =>
          /\ IsSubsequence(received, data)
          /\ Len(data) = Len(received)
                + Cardinality(SignificantNodes(get_tree(received, None)))
          /\ NewlineCount(data) = NewlineCount(received)
                + Cardinality(SignificantNodes(get_tree(received, None)))

(***************************************************************************)
(* The tree traversals on their own: a generator of Helpers is started on  *)
(* the tree of a buffer and resumed until it is exhausted                  *)
(***************************************************************************)

\* The buffers whose trees are traversed are made of at most this many pieces.
MaxTreePieces == 2

TraversalInit ==
    /\ pc \in {"traverse_tree", "get_significant_tree_nodes"}
    /\ data \in Buffers(MaxTreePieces)
    /\ tree = get_tree(data, None)
    /\ ErrorsOf(tree) = {}
    /\ result = (IF pc = "traverse_tree" THEN TraverseStart
                 ELSE SignificantStart)
    /\ argv = None
    /\ arguments = None
    /\ private_tree = None
    /\ file = << >>
    /\ exception = None
    /\ index = 1
    /\ last_rule = None
    /\ received = << >>
    /\ stdout = << >>
    /\ exit_code = << >>
    /\ run = 1
    /\ first_stdout = None
    /\ text = << >>

\* next() on Helpers.traverse_tree(tree): one round of its while loop
ResumeTraverseTree ==
    /\ pc = "traverse_tree"
    /\ result' = traverse_tree(tree.nodes, result)
    /\ pc' = IF result'.reached_root THEN "returned" ELSE pc
    /\ UNCHANGED <<argv, file, arguments, exception, data, tree, private_tree,
                   index, last_rule, received, stdout, exit_code, run,
                   first_stdout, text>>

\* next() on Helpers.get_significant_tree_nodes(newline_offsets, tree), the
\* index being the one of the tree's text: one round of its while loop, and
\* the print after the loop
ResumeSignificantTreeNodes ==
    /\ pc = "get_significant_tree_nodes"
    /\ result' = get_significant_tree_nodes(
                     tree.nodes, get_all_newline_offsets(data), result)
    /\ pc' = IF result'.err # None THEN "crashed"
             ELSE IF result'.reached_root THEN "returned" ELSE pc
    /\ exception' = result'.err
    /\ stdout' = IF result'.err = None /\ result'.reached_root
                 THEN Append(stdout, result'.end_of_block) ELSE stdout
    /\ UNCHANGED <<argv, file, arguments, data, tree, private_tree, index,
                   last_rule, received, exit_code, run, first_stdout, text>>

TraversalNext == ResumeTraverseTree \/ ResumeSignificantTreeNodes

\* The consumer of a generator keeps asking for the next node.
SpecTraversal ==
    TraversalInit /\ [][TraversalNext]_vars /\ WF_vars(TraversalNext)

\* The number of significant nodes that are proper ancestors of node n.
RECURSIVE SignificantAncestors(_, _)
SignificantAncestors(nodes, n) ==
    IF nodes[n].parent = 0 THEN 0
    ELSE (IF IsSignificant(nodes, nodes[n].parent) THEN 1 ELSE 0)
         + SignificantAncestors(nodes, nodes[n].parent)
NestingDepth(nodes, n) ==
    SignificantAncestors(nodes, n) + (IF n = 1 THEN 0 ELSE 1)

\* C24: the level yielded with a significant node is its nesting depth (the
\* number of its significant proper ancestors, plus one below the root), so
\* sibling significant nodes get the same level, and the level is 0 when
\* the traversal has ended.
C24_DepthCounter ==
    result.helper = "get_significant_tree_nodes" =>
        /\ pc # "crashed"
        /\ \A k \in 1..Len(result.yielded) :
              result.yielded[k].level
                  = NestingDepth(tree.nodes, result.yielded[k].node)
        /\ pc = "returned" => result.level = 0

\* The children of node n from left to right, and the nodes of the subtree
\* of n in pre-order (a node before its children, the children from left to
\* right), both read off the parent links.
ChildrenOf(nodes, n) ==
    SelectSeq([k \in 1..Len(nodes) |-> k], LAMBDA k : nodes[k].parent = n)
RECURSIVE PreOrder(_, _)
RECURSIVE PreOrderOfAll(_, _)
PreOrder(nodes, n) == <<n>> \o PreOrderOfAll(nodes, ChildrenOf(nodes, n))
PreOrderOfAll(nodes, ns) ==
    IF ns = << >> THEN << >>
    ELSE PreOrder(nodes, Head(ns)) \o PreOrderOfAll(nodes, Tail(ns))
IsPrefix(a, b) == Len(a) <= Len(b) /\ a = SubSeq(b, 1, Len(a))

TraverseTreeInPreOrder ==
    result.helper = "traverse_tree" =>
        /\ IsPrefix(result.yielded, PreOrder(tree.nodes, 1))
        /\ pc = "returned" <=> result.reached_root
        /\ pc = "returned" => result.yielded = PreOrder(tree.nodes, 1)

\* C25: traverse_tree yields the nodes of the tree in pre-order, each one
\* exactly once (what it has yielded is always a beginning of the pre-order
\* list, and the whole list when it ends), and it ends on every tree, the
\* tree of one node included.
C25_TraverseTree ==
    /\ []TraverseTreeInPreOrder
    /\ (pc = "traverse_tree") ~> (pc = "returned")

\* C25 witness: the traversal of a tree has ended in which the last leaf
\* lies two levels below the root, so the retracing loop went up twice.
C25_Witness ==
    /\ pc = "returned"
    /\ result.helper = "traverse_tree"
    /\ Len(result.yielded) = Len(tree.nodes)
    /\ \E n \in 1..Len(tree.nodes) :
          /\ n = Len(tree.nodes)
          /\ tree.nodes[n].parent > 1

(***************************************************************************)
(* The for loop of a rule that edits at single tokens, one match at a      *)
(* time: the captures and the newline index are computed once from the     *)
(* buffer the rule is given, then each round of the loop edits the buffer  *)
(* for one match                                                           *)
(***************************************************************************)

MaxLoopPieces == 3
LoopPieces ==
    {<<"a">>, <<"{">>, <<"}">>, <<SP>>, <<NL>>, <<";">>, <<"=", "a">>,
     <<"a", "=", "a", ";">>, <<"{", "|", "a", ",", "a">>,
     <<",", "a", "|", "}">>, <<"{", "|", "a">>, <<NL, "|", "a">>,
     <<NL, "+", "a", "}">>}

RECURSIVE LoopBuffers(_)
LoopBuffers(n) ==
    IF n = 0 THEN {<< >>}
    ELSE LET shorter == LoopBuffers(n - 1)
         IN shorter \cup {s \o p : s \in shorter, p \in LoopPieces}

SingleTokenRules ==
    {"BracketSpacing", "AddSpacesAfterCommas", "AddSpacesAroundAssignment"}

\* The rule has been called and has run its query; result holds the
\* captures and the newline index, index the place in the list of the match
\* the loop takes next.
LoopInit ==
    /\ pc = "loop"
    /\ last_rule \in SingleTokenRules \cup {"JoinElementsOntoSingleLines"}
    /\ data \in LoopBuffers(MaxLoopPieces)
    /\ received = data
    /\ tree = get_tree(data, None)
    /\ ErrorsOf(tree) = {}
    /\ result = get_query_result_and_newline_data(
                    tree, RuleQuery(last_rule), data)
    /\ index = 1
    /\ argv = None
    /\ arguments = None
    /\ private_tree = None
    /\ file = << >>
    /\ exception = None
    /\ stdout = << >>
    /\ exit_code = << >>
    /\ run = 1
    /\ first_stdout = None
    /\ text = << >>

\* One round of the for loop, or its end when the list is used up.
TakeMatch(st) ==
    /\ exception' = st.err
    /\ IF st.err # None
       THEN pc' = "crashed" /\ UNCHANGED <<data, index>>
       ELSE pc' = pc /\ data' = st.data /\ index' = index + 1
    /\ UNCHANGED <<argv, file, arguments, tree, private_tree, last_rule,
                   received, stdout, exit_code, run, first_stdout, text,
                   result>>

TakeBracket ==
    /\ pc = "loop" /\ last_rule = "BracketSpacing"
    /\ index <= Len(result.captures)
    /\ TakeMatch(BracketStep(data, tree, result.newline_offsets,
                             result.captures[index]))

TakeComma ==
    /\ pc = "loop" /\ last_rule = "AddSpacesAfterCommas"
    /\ index <= Len(result.captures)
    /\ TakeMatch(CommaStep(data, tree, result.newline_offsets,
                           result.captures[index]))

TakeAssignment ==
    /\ pc = "loop" /\ last_rule = "AddSpacesAroundAssignment"
    /\ index <= Len(result.captures)
    /\ TakeMatch(AssignmentStep(data, tree, result.newline_offsets,
                                result.captures[index]))

TakeJoin ==
    /\ pc = "loop" /\ last_rule = "JoinElementsOntoSingleLines"
    /\ index <= Len(result.captures)
    /\ TakeMatch(JoinStep(data, tree, result.newline_offsets,
                          result.captures[index]))

\* return data, tree
LoopReturn ==
    /\ pc = "loop"
    /\ index > Len(result.captures)
    /\ pc' = "returned"
    /\ UNCHANGED <<argv, file, arguments, exception, data, tree, private_tree,
                   index, last_rule, received, stdout, exit_code, run,
                   first_stdout, text, result>>

LoopNext ==
    TakeBracket \/ TakeComma \/ TakeAssignment \/ TakeJoin \/ LoopReturn

SpecLoop == LoopInit /\ [][LoopNext]_vars

\* index[line] + column of match k, from the index built before the loop.
PendingOffset(k) ==
    Resolve(result.newline_offsets, tree.nodes[result.captures[k].node].sp)

\* The offset of match k holds that match's token in the buffer as it is
\* now, and nothing up to and including the token has changed.
TokenInPlace(k) ==
    /\ PyInRange(data, PendingOffset(k))
    /\ PyAt(data, PendingOffset(k)) = tree.nodes[result.captures[k].node].type
    /\ PyTo(data, PendingOffset(k) + 1) = PyTo(received, PendingOffset(k) + 1)

\* C26: in BracketSpacing, AddSpacesAfterCommas and
\* AddSpacesAroundAssignment, the offset of every match still to be taken,
\* computed from the index built before the first edit, points at that
\* match's own token in the partly edited buffer.
C26_PendingOffsets ==
    (pc = "loop" /\ last_rule \in SingleTokenRules) =>
        \A k \in index..Len(result.captures) : TokenInPlace(k)

\* C26 witness: the loop has edited the buffer for a later match and an
\* earlier token of the same line is still to be taken.
C26_Witness ==
    /\ pc = "loop"
    /\ last_rule \in SingleTokenRules
    /\ index > 1
    /\ index <= Len(result.captures)
    /\ data # received
    /\ tree.nodes[result.captures[index].node].sp[1]
           = tree.nodes[result.captures[index - 1].node].sp[1]

\* The places (counted from 1) of the newlines that a round for the
\* delimiter at offset loc may delete under the policy of its tag: on a
\* side without newlines, the newline directly next to the delimiter and
\* the second newline of a pair directly next to it.
IsNewlineAt(t, off) == off >= 0 /\ off < Len(t) /\ t[off + 1] = NL
NewlinesNextTo(t, loc, tag) ==
    (IF tag \in {"no_newline_to_left", "no_newline_both"}
     THEN {off + 1 : off \in {o \in {loc - 1, loc - 2} :
                                 /\ IsNewlineAt(t, loc - 1)
                                 /\ IsNewlineAt(t, o)}}
     ELSE {})
    \cup
    (IF tag \in {"no_newline_to_right", "no_newline_both"}
     THEN {off + 1 : off \in {o \in {loc + 1, loc + 2} :
                                 /\ IsNewlineAt(t, loc + 1)
                                 /\ IsNewlineAt(t, o)}}
     ELSE {})

\* A round of the loop of JoinElementsOntoSingleLines.
JoinRound ==
    /\ pc = "loop"
    /\ last_rule = "JoinElementsOntoSingleLines"
    /\ index <= Len(result.captures)

\* C27: a round of JoinElementsOntoSingleLines finds its delimiter at the
\* offset it computed, and deletes nothing but newlines that are directly
\* next to that delimiter on a side with the no-newline policy (or the
\* second newline of such a pair); every other character stays, in order.
C27_JoinDeletesAdjacentNewlines ==
    [][JoinRound =>
          /\ TokenInPlace(index)
          /\ \E gone \in SUBSET NewlinesNextTo(data, PendingOffset(index),
                                               result.captures[index].tag) :
                data' = Without(data, gone, 1)]_vars

(***************************************************************************)
(* naive_normalize on its own: it is called on a text, and once more on    *)
(* what it returned                                                        *)
(***************************************************************************)

\* Every text of at most MaxNormalizeLen characters over NormalizeAlphabet.
MaxNormalizeLen == 6
NormalizeAlphabet == {"a", SP, TAB, NL}

RECURSIVE NormalizeTexts(_)
NormalizeTexts(n) ==
    IF n = 0 THEN {<< >>}
    ELSE LET shorter == NormalizeTexts(n - 1)
         IN shorter \cup {Append(t, c) : t \in shorter, c \in NormalizeAlphabet}

NormalizeInit ==
    /\ pc = "call"
    /\ text \in NormalizeTexts(MaxNormalizeLen)
    /\ data = << >>
    /\ received = << >>
    /\ result = None
    /\ argv = None
    /\ file = << >>
    /\ arguments = None
    /\ exception = None
    /\ tree = None
    /\ private_tree = None
    /\ index = 1
    /\ last_rule = None
    /\ stdout = << >>
    /\ exit_code = << >>
    /\ run = 1
    /\ first_stdout = None

\* data = naive_normalize(text)
CallNaiveNormalize ==
    /\ pc = "call"
    /\ data' = naive_normalize(text)
    /\ pc' = "returned"
    /\ UNCHANGED <<argv, file, arguments, exception, tree, private_tree, index,
                   last_rule, received, stdout, exit_code, run, first_stdout,
                   text, result>>

\* data = naive_normalize(data)
CallNaiveNormalizeAgain ==
    /\ pc = "returned"
    /\ received' = data
    /\ data' = naive_normalize(data)
    /\ pc' = "again"
    /\ UNCHANGED <<argv, file, arguments, exception, tree, private_tree, index,
                   last_rule, stdout, exit_code, run, first_stdout, text,
                   result>>

NormalizeNext == CallNaiveNormalize \/ CallNaiveNormalizeAgain

SpecNormalize == NormalizeInit /\ [][NormalizeNext]_vars

AtMostTwoNewlinesInARow(t) ==
    \A i \in 1..Len(t) :
        ~(i + 2 <= Len(t) /\ t[i] = NL /\ t[i + 1] = NL /\ t[i + 2] = NL)

\* C28: what naive_normalize returns holds at most two newlines in a row,
\* whatever the input, and naive_normalize applied to its own result
\* returns that result.
C28_NormalizeNewlinesAndIdempotent ==
    /\ pc \in {"returned", "again"} => AtMostTwoNewlinesInARow(data)
    /\ pc = "again" => data = received

====
